---- MODULE Spec2Model ----
(***************************************************************************)
(* Enhanced Universal Web Crawler: the crawl orchestrator                  *)
(* (EnhancedUniversalCrawler), its filter-agent chain, the storage engine  *)
(* write path and the chunked bulk crawl, as a state machine.              *)
(*                                                                         *)
(* Numbers that are floats in the source (confidences, thresholds,         *)
(* indicator weights) are integers in hundredths: 0.7 is 70, 1.0 is 100.   *)
(* Strings are opaque in TLA+, so what the source computes from the        *)
(* characters of a string (new URL(..), a RegExp test, .length) is given   *)
(* by the tables URLParse / StrFacts over the finite universe of           *)
(* candidates below; every table row is the value the JavaScript           *)
(* expression has on that string.                                          *)
(***************************************************************************)
EXTENDS Integers, Sequences, FiniteSets, TLC

(* ------------------------------ bounds -------------------------------- *)
\* longest url list handed to bulkCrawl
MaxUrls == 3
\* longest filter chain
MaxAgents == 2
\* largest configured maxConcurrent
MaxConc == 3
\* most direct applyFilter calls on one agent
MaxProbes == 3

(* ------------------------- program constants -------------------------- *)
\* BaseFilterAgent constructor: this.adaptationThreshold = 0.7
DefaultThreshold == 70
\* BaseFilterAgent constructor: priority: number = 1
DefaultPriority == 1
\* EnhancedUniversalCrawler constructor: config.maxConcurrent || 5
DefaultMaxConcurrent == 5

(* ---------------------------- candidates ------------------------------ *)
(* A candidate is what extractData hands to the chain (a string, or the    *)
(* value a post-processor returned), or what a caller hands to applyFilter *)
(* directly.  type is JavaScript's typeof ("object" for null too, told     *)
(* apart by isNull).  For an object: price is "absent", "string" or        *)
(* "number" with priceVal its numeric value; title is "absent" or the      *)
(* lower-cased title; publishDate is "absent", "valid" or "invalid" with   *)
(* ageDays = (now - publishDate) in days, negative for a future date.      *)
(***************************************************************************)
Str(s) ==
  [type |-> "string", isNull |-> FALSE, text |-> s, price |-> "absent", priceVal |-> 0,
   title |-> "absent", publishDate |-> "absent", ageDays |-> 0]

Obj(price, priceVal, title, publishDate, ageDays) ==
  [type |-> "object", isNull |-> FALSE, text |-> "", price |-> price, priceVal |-> priceVal,
   title |-> title, publishDate |-> publishDate, ageDays |-> ageDays]

NullData ==
  [type |-> "object", isNull |-> TRUE, text |-> "", price |-> "absent", priceVal |-> 0,
   title |-> "absent", publishDate |-> "absent", ageDays |-> 0]

NumberData ==
  [type |-> "number", isNull |-> FALSE, text |-> "", price |-> "absent", priceVal |-> 0,
   title |-> "absent", publishDate |-> "absent", ageDays |-> 0]

HttpsUrl == Str("https://x.com")
HttpUrl == Str("http://x.com")
FoxText == Str("The quick brown fox jumps.")
EmailText == Str("a@b.com")
\* an address of the same domain in upper case, and an address of another domain
UpperEmail == Str("C@B.COM")
OtherEmail == Str("a@y.org")
\* { title: 'Sample Product', price: '$299.99' }, the post-processor of the e-commerce example
ProductObj == Obj("string", 299, "sample product", "absent", 0)
\* { title: 'Sample Product', price: 299 }: the price is a number, not a string
ProductNumObj == Obj("number", 299, "sample product", "absent", 0)
\* { publishDate: <3 days ago> }
RecentArticle == Obj("absent", 0, "absent", "valid", 3)
\* { publishDate: <30 days ago> }
OldArticle == Obj("absent", 0, "absent", "valid", 30)
\* { publishDate: <7 days ahead of now> }
FutureArticle == Obj("absent", 0, "absent", "valid", 0 - 7)
\* { publishDate: 'soon' }: new Date('soon') is an Invalid Date, getTime() is NaN
UndatedArticle == Obj("absent", 0, "absent", "invalid", 0)

\* what extractData can produce: strings, and non-null values of post-processors
ExtractedData ==
  {HttpsUrl, HttpUrl, FoxText, EmailText, ProductObj, ProductNumObj,
   RecentArticle, OldArticle, FutureArticle, UndatedArticle}

\* what a caller can hand to applyFilter
AnyData == ExtractedData \cup {NullData, NumberData}

\* a URL of a second host, handed to learnFromFeedback by a caller
OtherUrl == Str("https://y.org")

(* new URL(String(data)): ok = it parses; protocol without the ':'; hostname *)
URLParse(d) ==
  IF d = HttpsUrl THEN [ok |-> TRUE, scheme |-> "https", hostname |-> "x.com"]
  ELSE IF d = OtherUrl THEN [ok |-> TRUE, scheme |-> "https", hostname |-> "y.org"]
  ELSE IF d = HttpUrl THEN [ok |-> TRUE, scheme |-> "http", hostname |-> "x.com"]
  ELSE [ok |-> FALSE, scheme |-> "", hostname |-> ""]

(* StrFacts(d), for a string d: length; the six tests of ContentQualityAgent *)
(* (vowels: /[aeiouAEIOU]/, norep: !/(.)\1{3,}/, caps: first char upper-    *)
(* case and not all upper-case, word3: /\b\w{3,}\b/, gram: the function-     *)
(* word test); email: EmailFilterAgent's pattern; emailDomain: text after   *)
(* '@'; tld2: domain has a '.' and a last label of >= 2 chars.              *)
StrFacts(d) ==
  IF d = HttpsUrl THEN
    [len |-> 13, vowels |-> TRUE, norep |-> TRUE, caps |-> FALSE, word3 |-> TRUE,
     gram |-> FALSE, email |-> FALSE, emailDomain |-> "", tld2 |-> FALSE]
  ELSE IF d = HttpUrl THEN
    [len |-> 12, vowels |-> TRUE, norep |-> TRUE, caps |-> FALSE, word3 |-> TRUE,
     gram |-> FALSE, email |-> FALSE, emailDomain |-> "", tld2 |-> FALSE]
  ELSE IF d = FoxText THEN
    [len |-> 26, vowels |-> TRUE, norep |-> TRUE, caps |-> TRUE, word3 |-> TRUE,
     gram |-> TRUE, email |-> FALSE, emailDomain |-> "", tld2 |-> FALSE]
  ELSE IF d = EmailText THEN
    [len |-> 7, vowels |-> TRUE, norep |-> TRUE, caps |-> FALSE, word3 |-> TRUE,
     gram |-> TRUE, email |-> TRUE, emailDomain |-> "b.com", tld2 |-> TRUE]
  ELSE IF d = UpperEmail THEN
    [len |-> 7, vowels |-> TRUE, norep |-> TRUE, caps |-> FALSE, word3 |-> TRUE,
     gram |-> FALSE, email |-> TRUE, emailDomain |-> "b.com", tld2 |-> TRUE]
  ELSE IF d = OtherEmail THEN
    [len |-> 7, vowels |-> TRUE, norep |-> TRUE, caps |-> FALSE, word3 |-> TRUE,
     gram |-> TRUE, email |-> TRUE, emailDomain |-> "y.org", tld2 |-> TRUE]
  ELSE
    [len |-> 0, vowels |-> FALSE, norep |-> TRUE, caps |-> FALSE, word3 |-> FALSE,
     gram |-> FALSE, email |-> FALSE, emailDomain |-> "", tld2 |-> FALSE]

Min(a, b) == IF a < b THEN a ELSE b
Max(a, b) == IF a > b THEN a ELSE b

(* ------------------------------ agents -------------------------------- *)
(* One record shape for every agent class; a class reads only its own      *)
(* fields.  kind names the class.                                          *)
NewMetrics ==
  [totalProcessed |-> 0, successfulExtractions |-> 0, failedExtractions |-> 0,
   confidenceScores |-> << >>]

BaseFilterAgent(name, kind, priority) ==
  [name |-> name, kind |-> kind, priority |-> priority, strategy |-> "balanced",
   metrics |-> NewMetrics, isActive |-> TRUE, adaptationThreshold |-> DefaultThreshold,
   allowedDomains |-> {}, allowedSchemes |-> {}, domainScores |-> << >>,
   scoreError |-> << >>,
   patterns |-> {}, minLength |-> 0, maxLength |-> 0,
   learnedPatterns |-> {}, blacklistPatterns |-> {},
   qualityIndicators |->
     [hasVowels |-> 0, balancedLength |-> 0, noExcessiveRepetition |-> 0,
      properCapitalization |-> 0, containsMeaningfulWords |-> 0,
      grammaticalStructure |-> 0],
   trustedDomains |-> {}, blockedDomains |-> {},
   minPrice |-> 0, maxPrice |-> 0, requiredKeywords |-> {}, maxAgeInDays |-> 0]

URLFilterAgent(name, allowedDomains, allowedSchemes) ==
  [BaseFilterAgent(name, "url", DefaultPriority) EXCEPT
     !.allowedDomains = allowedDomains, !.allowedSchemes = allowedSchemes]

TextFilterAgent(name, patterns, minLength, maxLength) ==
  [BaseFilterAgent(name, "text", DefaultPriority) EXCEPT
     !.patterns = patterns, !.minLength = minLength, !.maxLength = maxLength]

ContentQualityAgent(name) ==
  [BaseFilterAgent(name, "quality", DefaultPriority) EXCEPT
     !.qualityIndicators =
        [hasVowels |-> 10, balancedLength |-> 20, noExcessiveRepetition |-> 15,
         properCapitalization |-> 10, containsMeaningfulWords |-> 25,
         grammaticalStructure |-> 20]]

EmailFilterAgent(name) == BaseFilterAgent(name, "email", DefaultPriority)

\* examples/advanced-usage.ts: super(name, 5)
ProductFilterAgent(name, minPrice, maxPrice, keywords) ==
  [BaseFilterAgent(name, "product", 5) EXCEPT
     !.minPrice = minPrice, !.maxPrice = maxPrice, !.requiredKeywords = keywords]

\* examples/advanced-usage.ts: super(name, 4)
DateFilterAgent(name, maxAgeInDays) ==
  [BaseFilterAgent(name, "date", 4) EXCEPT !.maxAgeInDays = maxAgeInDays]

(* The outcome of one applyFilter call: threw = the promise rejected;      *)
(* otherwise {passed, confidence}; agent = the agent after the call.       *)
Outcome(threw, passed, confidence, agent) ==
  [threw |-> threw, passed |-> passed, confidence |-> confidence, agent |-> agent]

RejectEarlyLost(a) ==
  Outcome(FALSE, FALSE, 0, [a EXCEPT !.metrics.failedExtractions = @ + 1])

\* this.metrics.failedExtractions++; this.metrics.totalProcessed++;
\* return { passed: false, confidence: 0.0 }
RejectEarly(a) ==
  Outcome(FALSE, FALSE, 0,
          [a EXCEPT !.metrics.failedExtractions = @ + 1, !.metrics.totalProcessed = @ + 1])

ConcludeAdapting(a, passed, returned) ==
  LET m == [a.metrics EXCEPT !.totalProcessed = @ + 1,
                             !.successfulExtractions = IF passed THEN @ + 1 ELSE @,
                             !.failedExtractions = IF passed THEN @ ELSE @ + 1]
      successRate == (m.successfulExtractions * 100) \div m.totalProcessed
  IN Outcome(FALSE, passed, returned,
             [a EXCEPT !.metrics = m,
                       !.strategy = IF successRate < 30 THEN "aggressive"
                                    ELSE IF successRate < 60 THEN "balanced"
                                    ELSE IF successRate > 80 THEN "stealth"
                                    ELSE "adaptive"])

\* totalProcessed++; passed ? successfulExtractions++ : failedExtractions++;
\* return { passed, confidence: returned }
Conclude(a, passed, returned) ==
  Outcome(FALSE, passed, returned,
          [a EXCEPT !.metrics.totalProcessed = @ + 1,
                    !.metrics.successfulExtractions = IF passed THEN @ + 1 ELSE @,
                    !.metrics.failedExtractions = IF passed THEN @ ELSE @ + 1])

\* a TypeError escapes applyFilter: no metric was touched before it
Throws(a) == Outcome(TRUE, FALSE, 0, a)

updateStrategySticky(a, successRate) ==
  IF successRate < 30 THEN [a EXCEPT !.strategy = "aggressive"]
  ELSE IF successRate < 60 THEN [a EXCEPT !.strategy = "balanced"]
  ELSE IF successRate > 80 THEN [a EXCEPT !.strategy = "stealth"]
  ELSE a

\* successRate in hundredths; only this.strategy is assigned
updateStrategy(a, successRate) ==
  IF successRate < 30 THEN [a EXCEPT !.strategy = "aggressive"]
  ELSE IF successRate < 60 THEN [a EXCEPT !.strategy = "balanced"]
  ELSE IF successRate > 80 THEN [a EXCEPT !.strategy = "stealth"]
  ELSE [a EXCEPT !.strategy = "adaptive"]

\* this.domainScores.get(domain) || 0, when the map has the domain
DomainScore(a, domain) ==
  IF domain \in DOMAIN a.domainScores THEN a.domainScores[domain] ELSE 0

\* domain.includes(allowed)
HostIncludes(domain, allowed) ==
  allowed = domain \/ (domain = "x.com" /\ allowed \in {"x", "com", ".com", "x."})

URLFilterAgent_applyFilterStrict(a, d) ==
  LET url == URLParse(d) IN
  IF ~url.ok \/ url.scheme \notin a.allowedSchemes \/ url.hostname = "" THEN RejectEarly(a)
  ELSE IF a.allowedDomains # {}
          /\ ~\E allowed \in a.allowedDomains : HostIncludes(url.hostname, allowed)
       THEN RejectEarly(a)
  ELSE LET confidence == 30 + 40 + (DomainScore(a, url.hostname) * 30) \div 100
       IN Conclude(a, confidence > a.adaptationThreshold, Min(100, confidence))

\* confidence is in hundredths, from the score to the nearest hundredth: for every
\* double of ScoreSteps, 0.3 + 0.4 + score * 0.3 >= 0.7 evaluates in binary64 to what
\* 70 + (30 * hundredths) \div 100 >= 70 evaluates to
URLFilterAgent_applyFilter(a, d) ==
  LET url == URLParse(d) IN
  IF ~url.ok THEN RejectEarly(a)                      \* catch (error)
  ELSE IF url.scheme \notin a.allowedSchemes THEN RejectEarly(a)
  ELSE IF url.hostname = "" THEN RejectEarly(a)
  ELSE IF a.allowedDomains # {}
          /\ ~\E allowed \in a.allowedDomains : HostIncludes(url.hostname, allowed)
       THEN RejectEarly(a)
  ELSE LET confidence == 30 + 40 + (DomainScore(a, url.hostname) * 30) \div 100
       IN Conclude(a, confidence >= a.adaptationThreshold, Min(100, confidence))

\* the patterns TextFilterAgent.learnFromFeedback learns from a liked string: \bword\b
\* for each word (/\b\w+\b/g) of at least 3 characters of data.toLowerCase()
LearnedFrom(d) ==
  IF d = FoxText
  THEN {"\\bthe\\b", "\\bquick\\b", "\\bbrown\\b", "\\bfox\\b", "\\bjumps\\b"}
  ELSE IF d = HttpsUrl THEN {"\\bhttps\\b", "\\bcom\\b"}
  ELSE IF d = HttpUrl THEN {"\\bhttp\\b", "\\bcom\\b"}
  ELSE IF d \in {EmailText, UpperEmail} THEN {"\\bcom\\b"}
  ELSE IF d = OtherEmail THEN {"\\borg\\b"}
  ELSE {}

\* the pattern it blacklists for a disliked string: \b + the lower-cased string with
\* its special characters escaped + \b
BlacklistedFrom(d) ==
  IF d = FoxText THEN "\\bthe quick brown fox jumps\\.\\b"
  ELSE IF d = HttpsUrl THEN "\\bhttps://x\\.com\\b"
  ELSE IF d = HttpUrl THEN "\\bhttp://x\\.com\\b"
  ELSE IF d = EmailText THEN "\\ba@b\\.com\\b"
  ELSE IF d = UpperEmail THEN "\\bc@b\\.com\\b"
  ELSE IF d = OtherEmail THEN "\\ba@y\\.org\\b"
  ELSE "\\b\\b"

\* new RegExp(pattern, 'i').test(data), for the patterns the callers configure and
\* the patterns learned.  A blacklisted string matches its own pattern unless it ends
\* in a non-word character, after which there is no \b at the end of the string.
RegExpTest(pattern, d) ==
  IF pattern = "\\b[a-zA-Z]{3,}\\b" THEN StrFacts(d).word3
  ELSE IF pattern = "fox" THEN d = FoxText
  ELSE IF pattern \in LearnedFrom(d) THEN TRUE
  ELSE IF pattern = BlacklistedFrom(d)
       THEN d \in {HttpsUrl, HttpUrl, EmailText, UpperEmail, OtherEmail}
  ELSE FALSE

ApplyStrategySwapped(strategy, confidence) ==
  IF strategy = "aggressive" THEN (confidence * 4) \div 5
  ELSE IF strategy = "stealth" THEN (confidence * 3) \div 2
  ELSE confidence

\* if (this.strategy === 'aggressive') confidence *= 1.5;
\* else if (this.strategy === 'stealth') confidence *= 0.8;
ApplyStrategy(strategy, confidence) ==
  IF strategy = "aggressive" THEN (confidence * 3) \div 2
  ELSE IF strategy = "stealth" THEN (confidence * 4) \div 5
  ELSE confidence

TextFilterAgent_applyFilterDistinct(a, d) ==
  IF d.type # "string" THEN RejectEarly(a)
  ELSE IF StrFacts(d).len < a.minLength \/ StrFacts(d).len > a.maxLength THEN RejectEarly(a)
  ELSE
    LET allPatterns == a.patterns \cup a.learnedPatterns
        matches == Cardinality({p \in allPatterns : RegExpTest(p, d)})
        base == IF allPatterns # {} THEN 20 * matches ELSE 50
        confidence == ApplyStrategy(a.strategy, base)
    IN IF \E b \in a.blacklistPatterns : RegExpTest(b, d) THEN RejectEarly(a)
       ELSE Conclude([a EXCEPT !.metrics.confidenceScores = Append(@, confidence)],
                     confidence >= a.adaptationThreshold, Min(100, confidence))

\* patternMatches over [...this.patterns, ...Array.from(this.learnedPatterns)]: a
\* pattern that is configured and learned as well is tested, and counted, twice
PatternMatches(a, d) ==
  Cardinality({p \in a.patterns : RegExpTest(p, d)})
  + Cardinality({p \in a.learnedPatterns : RegExpTest(p, d)})

TextFilterAgent_applyFilter(a, d) ==
  IF d.type # "string" THEN RejectEarly(a)
  ELSE IF StrFacts(d).len < a.minLength \/ StrFacts(d).len > a.maxLength THEN RejectEarly(a)
  ELSE
    LET allPatterns == a.patterns \cup a.learnedPatterns
        matches == PatternMatches(a, d)
        base == IF allPatterns # {} THEN 20 * matches ELSE 50
        confidence == ApplyStrategy(a.strategy, base)
    IN IF \E b \in a.blacklistPatterns : RegExpTest(b, d) THEN RejectEarly(a)
       ELSE Conclude([a EXCEPT !.metrics.confidenceScores = Append(@, confidence)],
                     confidence >= a.adaptationThreshold, Min(100, confidence))

ContentQualityAgent_applyFilter(a, d) ==
  IF d.type # "string" THEN RejectEarly(a)
  ELSE
    LET f == StrFacts(d)
        q == a.qualityIndicators
        confidence ==
            (IF f.vowels THEN q.hasVowels ELSE 0)
          + (IF f.len >= 5 /\ f.len <= 100 THEN q.balancedLength ELSE 0)
          + (IF f.norep THEN q.noExcessiveRepetition ELSE 0)
          + (IF f.len > 0 /\ f.caps THEN q.properCapitalization ELSE 0)
          + (IF f.word3 THEN q.containsMeaningfulWords ELSE 0)
          + (IF f.gram THEN q.grammaticalStructure ELSE 0)
    IN Conclude(a, confidence >= a.adaptationThreshold, Min(100, confidence))

EmailFilterAgent_applyFilter(a, d) ==
  IF d.type # "string" THEN RejectEarly(a)
  ELSE
    LET f == StrFacts(d)
        domain == f.emailDomain
        confidence == 50 + (IF domain # "" /\ domain \in a.trustedDomains THEN 30 ELSE 0)
                         + (IF domain # "" /\ f.tld2 THEN 20 ELSE 0)
    IN IF ~f.email THEN RejectEarly(a)
       ELSE IF domain # "" /\ domain \in a.blockedDomains THEN RejectEarly(a)
       ELSE Conclude(a, confidence >= a.adaptationThreshold, Min(100, confidence))

\* titleLower.includes(kw.toLowerCase())
TitleIncludes(title, kw) == title = "gaming laptop" /\ kw = "laptop"

ProductFilterAgent_applyFilter(a, d) ==
  IF d.type # "object" THEN RejectEarly(a)
  ELSE IF d.isNull THEN Throws(a)                     \* null.price
  ELSE IF d.price = "absent" \/ d.title = "absent" THEN RejectEarly(a)
  ELSE IF d.price = "number" THEN Throws(a)           \* (299).replace is not a function
  ELSE IF ~(d.priceVal >= a.minPrice /\ d.priceVal <= a.maxPrice) THEN RejectEarly(a)
  ELSE
    LET n == Cardinality({k \in a.requiredKeywords : TitleIncludes(d.title, k)})
        confidence == 50 + 30
                      + (IF n > 0 THEN (20 * n) \div Cardinality(a.requiredKeywords) ELSE 0)
    IN Conclude(a, confidence >= a.adaptationThreshold, confidence)

DateFilterAgent_applyFilter(a, d) ==
  IF d.type # "object" THEN RejectEarly(a)
  ELSE IF d.isNull THEN Throws(a)                     \* null.publishDate
  ELSE IF d.publishDate = "absent" THEN RejectEarly(a)
  ELSE IF d.publishDate = "invalid" THEN Conclude(a, FALSE, 0)   \* NaN <= max is false
  ELSE
    LET passed == d.ageDays <= a.maxAgeInDays
        confidence == IF passed THEN Max(50, 100 - (d.ageDays * 100) \div a.maxAgeInDays)
                      ELSE 0
    IN Conclude(a, passed, confidence)

\* agent.applyFilter(data, context): dynamic dispatch on the agent's class
applyFilter(a, d) ==
  CASE a.kind = "url" -> URLFilterAgent_applyFilter(a, d)
    [] a.kind = "text" -> TextFilterAgent_applyFilter(a, d)
    [] a.kind = "quality" -> ContentQualityAgent_applyFilter(a, d)
    [] a.kind = "email" -> EmailFilterAgent_applyFilter(a, d)
    [] a.kind = "product" -> ProductFilterAgent_applyFilter(a, d)
    [] a.kind = "date" -> DateFilterAgent_applyFilter(a, d)

(* -------------------------- learnFromFeedback -------------------------- *)
(* The outcome of one learnFromFeedback call: the agent afterwards, and    *)
(* whether the call threw.                                                 *)
Learned(a) == [agent |-> a, threw |-> FALSE]
LearnThrows(a) == [agent |-> a, threw |-> TRUE]

URLFilterAgent_learnUnclamped(a, d, feedback) ==
  LET url == URLParse(d)
      newScore == DomainScore(a, url.hostname) + (IF feedback THEN 10 ELSE 0 - 10)
  IN IF ~url.ok THEN Learned(a)
     ELSE Learned([a EXCEPT !.domainScores =
                     [h \in (DOMAIN a.domainScores) \cup {url.hostname} |->
                        IF h = url.hostname THEN newScore ELSE a.domainScores[h]]])

\* The doubles a domain score takes.  domainScores holds the score to the nearest
\* hundredth, scoreError what the stored double differs from the double nearest to that
\* hundredth, in units of 2^-58.  <<h, e, eLike, eDislike>>: from the double (h, e),
\* Math.max(-1.0, Math.min(1.0, currentScore + 0.1)) is the double
\* (Min(100, h + 10), eLike) and the same with - 0.1 is (Max(-100, h - 10), eDislike),
\* as binary64 addition rounds them.  The set is closed under both steps from (0, 0).
ScoreSteps ==
  { <<-100, 0, 0, 0>>, <<-100, 32, 32, 0>>, <<-100, 64, 64, 0>>, <<-90, 0, 0, 0>>,
    <<-90, 32, 32, 32>>, <<-90, 64, 64, 64>>, <<-80, 0, -32, 0>>, <<-80, 32, 0, 32>>,
    <<-80, 64, 32, 64>>, <<-70, -32, -32, 0>>, <<-70, 0, 0, 32>>, <<-70, 32, 32, 64>>,
    <<-60, -32, -32, -32>>, <<-60, 0, 0, 0>>, <<-60, 32, 32, 32>>,
    <<-50, -32, -32, -32>>, <<-50, 0, 0, 0>>, <<-50, 32, 32, 32>>,
    <<-40, -32, -48, -32>>, <<-40, 0, -16, 0>>, <<-40, 32, 16, 32>>,
    <<-30, -48, -40, -32>>, <<-30, -32, -24, -32>>, <<-30, -16, -8, 0>>,
    <<-30, 0, 8, 0>>, <<-30, 16, 24, 32>>, <<-30, 32, 40, 32>>, <<-20, -40, -40, -48>>,
    <<-20, -24, -24, -32>>, <<-20, -8, -8, -16>>, <<-20, 0, 0, -16>>, <<-20, 8, 8, 0>>,
    <<-20, 24, 24, 16>>, <<-20, 40, 40, 32>>, <<-10, -40, -40, -40>>,
    <<-10, -24, -24, -24>>, <<-10, -8, -8, -8>>, <<-10, 0, 0, 0>>, <<-10, 8, 8, 8>>,
    <<-10, 24, 24, 24>>, <<-10, 40, 40, 40>>, <<0, -40, -40, -40>>,
    <<0, -24, -24, -24>>, <<0, -8, -8, -8>>, <<0, 0, 0, 0>>, <<0, 8, 8, 8>>,
    <<0, 24, 24, 24>>, <<0, 40, 40, 40>>, <<10, -40, -40, -40>>, <<10, -24, -24, -24>>,
    <<10, -8, -8, -8>>, <<10, 0, 0, 0>>, <<10, 8, 8, 8>>, <<10, 24, 24, 24>>,
    <<10, 40, 40, 40>>, <<20, -40, -32, -40>>, <<20, -24, -16, -24>>,
    <<20, -8, 0, -8>>, <<20, 0, 16, 0>>, <<20, 8, 16, 8>>, <<20, 24, 32, 24>>,
    <<20, 40, 48, 40>>, <<30, -32, -32, -40>>, <<30, -16, -32, -24>>, <<30, 0, 0, -8>>,
    <<30, 16, 0, 8>>, <<30, 32, 32, 24>>, <<30, 48, 32, 40>>, <<40, -32, -32, -16>>,
    <<40, 0, 0, 16>>, <<40, 32, 32, 48>>, <<50, -32, -32, -32>>, <<50, 0, 0, 0>>,
    <<50, 32, 32, 32>>, <<60, -32, -32, -32>>, <<60, 0, 0, 0>>, <<60, 32, 32, 32>>,
    <<70, -32, -64, -32>>, <<70, 0, -32, 0>>, <<70, 32, 0, 32>>, <<80, -64, -64, -32>>,
    <<80, -32, -32, 0>>, <<80, 0, 0, 32>>, <<90, -64, -64, -64>>,
    <<90, -32, -32, -32>>, <<90, 0, 0, 0>>, <<100, -64, 0, -64>>, <<100, -32, 0, -32>>,
    <<100, 0, 0, 0>> }

\* the scoreError of the domain, 0 for a domain without a score
ScoreError(a, domain) ==
  IF domain \in DOMAIN a.scoreError THEN a.scoreError[domain] ELSE 0

NewScoreError(h, e, feedback) ==
  LET step == CHOOSE r \in ScoreSteps : r[1] = h /\ r[2] = e
  IN IF feedback THEN step[3] ELSE step[4]

\* new URL(data) in a try block; the score of the hostname moves by 0.1 within [-1, 1]
URLFilterAgent_learnFromFeedback(a, d, feedback) ==
  LET url == URLParse(d)
      newScore == Max(0 - 100, Min(100, DomainScore(a, url.hostname)
                                        + (IF feedback THEN 10 ELSE 0 - 10)))
      newError == NewScoreError(DomainScore(a, url.hostname),
                                ScoreError(a, url.hostname), feedback)
  IN IF ~url.ok THEN Learned(a)
     ELSE Learned([a EXCEPT !.domainScores =
                     [h \in (DOMAIN a.domainScores) \cup {url.hostname} |->
                        IF h = url.hostname THEN newScore ELSE a.domainScores[h]],
                            !.scoreError =
                     [h \in (DOMAIN a.scoreError) \cup {url.hostname} |->
                        IF h = url.hostname THEN newError ELSE a.scoreError[h]]])

TextFilterAgent_learnFromFeedback(a, d, feedback) ==
  IF d.type # "string" THEN Learned(a)
  ELSE IF feedback THEN Learned([a EXCEPT !.learnedPatterns = @ \cup LearnedFrom(d)])
  ELSE Learned([a EXCEPT !.blacklistPatterns = @ \cup {BlacklistedFrom(d)}])

\* every indicator moves by 0.05 within [0, 1]
ContentQualityAgent_learnFromFeedback(a, d, feedback) ==
  IF d.type # "string" THEN Learned(a)
  ELSE Learned([a EXCEPT !.qualityIndicators =
                  [k \in DOMAIN @ |->
                     Max(0, Min(100, @[k] + (IF feedback THEN 5 ELSE 0 - 5)))]])

EmailFilterAgent_learnKeepsOther(a, d, feedback) ==
  LET domain == StrFacts(d).emailDomain
  IN IF d.type # "string" \/ domain = "" THEN Learned(a)
     ELSE IF feedback
          THEN Learned([a EXCEPT !.trustedDomains = @ \cup {domain}])
          ELSE Learned([a EXCEPT !.blockedDomains = @ \cup {domain}])

\* the domain is data.split('@')[1]?.toLowerCase(); add to one set, delete from the other
EmailFilterAgent_learnFromFeedback(a, d, feedback) ==
  LET domain == StrFacts(d).emailDomain
  IN IF d.type # "string" \/ domain = "" THEN Learned(a)
     ELSE IF feedback
          THEN Learned([a EXCEPT !.trustedDomains = @ \cup {domain},
                                 !.blockedDomains = @ \ {domain}])
          ELSE Learned([a EXCEPT !.blockedDomains = @ \cup {domain},
                                 !.trustedDomains = @ \ {domain}])

\* if (feedback && data.price) { parseFloat(data.price.replace(..)) .. }: reading price
\* of null throws, and so does replace on a number
ProductFilterAgent_learnFromFeedback(a, d, feedback) ==
  IF ~feedback THEN Learned(a)
  ELSE IF d.type = "object" /\ d.isNull THEN LearnThrows(a)
  ELSE IF d.price = "absent" THEN Learned(a)
  ELSE IF d.price = "number" THEN LearnThrows(a)
  ELSE Learned([a EXCEPT
                  !.minPrice = IF d.priceVal < @ THEN Max(0, d.priceVal - 10) ELSE @,
                  !.maxPrice = IF d.priceVal > @ THEN d.priceVal + 10 ELSE @])

\* if (feedback && data.publishDate) { .. }: reading publishDate of null throws
DateFilterAgent_learnFromFeedback(a, d, feedback) ==
  IF ~feedback THEN Learned(a)
  ELSE IF d.type = "object" /\ d.isNull THEN LearnThrows(a)
  ELSE IF d.publishDate # "valid" THEN Learned(a)
  ELSE Learned([a EXCEPT !.maxAgeInDays = IF d.ageDays > @ THEN d.ageDays ELSE @])

learnFromFeedback(a, d, feedback) ==
  CASE a.kind = "url" -> URLFilterAgent_learnFromFeedback(a, d, feedback)
    [] a.kind = "text" -> TextFilterAgent_learnFromFeedback(a, d, feedback)
    [] a.kind = "quality" -> ContentQualityAgent_learnFromFeedback(a, d, feedback)
    [] a.kind = "email" -> EmailFilterAgent_learnFromFeedback(a, d, feedback)
    [] a.kind = "product" -> ProductFilterAgent_learnFromFeedback(a, d, feedback)
    [] a.kind = "date" -> DateFilterAgent_learnFromFeedback(a, d, feedback)

(* ---------------------------- monitoring ------------------------------ *)
\* this.performanceThresholds.successRate (0.7) and .errorRate (0.1), in hundredths
SuccessRateThreshold == 70
ErrorRateThreshold == 10
\* this.maxAlertsSize
MaxAlertsSize == 100
\* if (metrics.length > 1000) metrics.shift()
MetricsCap == 1000
\* slice(-10)
RecentWindow == 10
\* successRateMetrics.length % 100 === 0
ReportEvery == 100

\* new AdvancedMonitoringSystem(): the two series of performanceMetrics (values only),
\* the alerts (levels only), and what has happened to reports.  fed counts the
\* snapshots fed so far; the code keeps no such counter.
AdvancedMonitoringSystem ==
  [successRate |-> << >>, errorRate |-> << >>, realTimeAlerts |-> << >>,
   fed |-> 0, reports |-> 0, saving |-> 0, written |-> 0]

RECURSIVE SumSeq(_)
SumSeq(q) == IF q = << >> THEN 0 ELSE Head(q) + SumSeq(Tail(q))

\* q.slice(-n)
Recent(q, n) == IF Len(q) <= n THEN q ELSE SubSeq(q, Len(q) - n + 1, Len(q))

addMetricDropNewest(series, value) ==
  IF Len(series) >= MetricsCap THEN series ELSE Append(series, value)

\* metrics.push({ timestamp, value }); if (metrics.length > 1000) metrics.shift()
addMetric(series, value) ==
  LET pushed == Append(series, value)
  IN IF Len(pushed) > MetricsCap THEN Tail(pushed) ELSE pushed

\* the mean of agentStats.successRate over stats.filterAgents, 0 with no agent
AvgSuccessRate(stats) ==
  IF stats.filterAgents = << >> THEN 0
  ELSE SumSeq([i \in 1..Len(stats.filterAgents) |-> stats.filterAgents[i].successRate])
       \div Len(stats.filterAgents)

ErrorRateOfAttempts(stats) ==
  IF stats.pagesCrawled + stats.errorsEncountered > 0
  THEN (stats.errorsEncountered * 100) \div (stats.pagesCrawled + stats.errorsEncountered)
  ELSE 0

\* errors / totalOps, 0 when no page has been crawled
ErrorRateOf(stats) ==
  IF stats.pagesCrawled > 0 THEN (stats.errorsEncountered * 100) \div stats.pagesCrawled ELSE 0

analyzeTrends(m, stats) ==
  [m EXCEPT !.successRate = addMetric(@, AvgSuccessRate(stats)),
            !.errorRate = addMetric(@, ErrorRateOf(stats)),
            !.fed = @ + 1]

\* this.realTimeAlerts.push(alert); if (length > maxAlertsSize) shift()
triggerAlert(alerts, level) ==
  LET pushed == Append(alerts, level)
  IN IF Len(pushed) > MaxAlertsSize THEN Tail(pushed) ELSE pushed

LowSuccessRateEarly(series) ==
  SumSeq(Recent(series, RecentWindow)) < SuccessRateThreshold * Min(Len(series), RecentWindow)

HighErrorRateAtThreshold(series) ==
  /\ Len(series) >= RecentWindow
  /\ SumSeq(Recent(series, RecentWindow)) >= ErrorRateThreshold * RecentWindow

\* the mean of the last 10 values against the threshold: sum / 10 < t  iff  sum < 10 t
LowSuccessRate(series) ==
  /\ Len(series) >= RecentWindow
  /\ SumSeq(Recent(series, RecentWindow)) < SuccessRateThreshold * RecentWindow

HighErrorRate(series) ==
  /\ Len(series) >= RecentWindow
  /\ SumSeq(Recent(series, RecentWindow)) > ErrorRateThreshold * RecentWindow

detectPerformanceAnomalies(m) ==
  LET warned == IF LowSuccessRate(m.successRate)
                THEN triggerAlert(m.realTimeAlerts, "WARNING") ELSE m.realTimeAlerts
  IN [m EXCEPT !.realTimeAlerts = IF HighErrorRate(m.errorRate)
                                  THEN triggerAlert(warned, "ERROR") ELSE warned]

ReportDue(series) == Len(series) % ReportEvery = 0 /\ Len(series) > 0

\* generateReports up to its await: the report is created and saveReport is started
generateReports(m) ==
  IF ReportDue(m.successRate)
  THEN [m EXCEPT !.reports = @ + 1, !.saving = @ + 1]
  ELSE m

\* trackPerformance up to its first await
trackPerformance(m, stats) == generateReports(detectPerformanceAnomalies(analyzeTrends(m, stats)))

\* calculateAvgSuccessRate()
calculateAvgSuccessRate(m) ==
  IF m.successRate = << >> THEN 0 ELSE SumSeq(m.successRate) \div Len(m.successRate)

\* calculateSystemHealth(): the mean of the indicators present, 0.7 with none
calculateSystemHealth(m) ==
  LET avg == calculateAvgSuccessRate(m)
      a == IF avg > 0 THEN <<avg>> ELSE << >>
      recent == Recent(m.errorRate, RecentWindow)
      b == IF m.errorRate # << >> THEN <<100 - (SumSeq(recent) \div Len(recent))>> ELSE << >>
  IN IF a \o b = << >> THEN 70 ELSE SumSeq(a \o b) \div Len(a \o b)

\* AdvancedMonitoringSystem.getStats()
monitoringGetStats(m) ==
  [activeAlerts |-> Len(m.realTimeAlerts),
   metricsTracked |-> (IF m.fed > 0 THEN <<"successRate", "errorRate">> ELSE << >>),
   avgSuccessRate |-> calculateAvgSuccessRate(m),
   systemHealth |-> calculateSystemHealth(m),
   recentAlerts |-> Recent(m.realTimeAlerts, 5)]

(* ------------------------------ ML scorer ------------------------------ *)
\* the keys extractFeatures can produce
FeatureNames ==
  {"length", "wordCount", "vowelRatio", "digitRatio", "specialCharRatio", "uppercaseRatio",
   "whitespaceRatio", "avgWordLength", "uniqueWordRatio", "sourceReliability",
   "extractionDepth", "timeOfDay"}

(* Features are integers in quarters (0.5 is 2), learning rates integers   *)
(* in sixteenths; a weight is an integer in units of 2^-23 and a score or  *)
(* prediction in units of 2^-25, so that a weight times a feature is a     *)
(* score.  On the                                                          *)
(* inputs below every value is a dyadic rational that both these integers  *)
(* and the source's doubles hold exactly.                                  *)
WeightOne == 2 ^ 23
ScoreOne == WeightOne * 4
\* this.cacheSizeLimit
CacheSizeLimit == 10000
\* learningRate: number = 0.01, which the scale of sixteenths cannot hold: the default
\* is taken as the smallest positive rate of the scale
DefaultLearningRate == 1

\* no call made yet
NoCall == [op |-> "none", data |-> NullData,
           context |-> [sourceReliability |-> 0, extractionDepth |-> 0], liked |-> FALSE, rate |-> 0,
           before |-> 0, value |-> 0]

\* new MachineLearningEngine() when config.enableLearning, else this.mlEngine = null.
\* featureKeys are the keys present in the featureWeights map, in insertion order;
\* predictionCache is the map's entries in insertion order; trainingData is its length.
\* last records the latest call and what it returned; the code keeps no such record.
MachineLearningEngine(enabled) ==
  [enabled |-> enabled, featureWeights |-> [f \in FeatureNames |-> 0], featureKeys |-> << >>,
   trainingData |-> 0, predictionCache |-> << >>, modelVersion |-> 1, last |-> NoCall]

\* a text of 100 characters: five different words of 15 letters each, 25 blanks
\* between them; 50 of the letters are vowels and 25 are capitals
FiveWords == Str("five words")

\* what the regular expressions and split(/\s+/) of extractFeatures count in a string
TextCounts(d) ==
  IF d = FiveWords
  THEN [len |-> 100, words |-> 5, vowels |-> 50, digits |-> 0, special |-> 0, upper |-> 25,
        blanks |-> 25, letters |-> 75, unique |-> 5]
  ELSE [len |-> 0, words |-> 1, vowels |-> 0, digits |-> 0, special |-> 0, upper |-> 0,
        blanks |-> 0, letters |-> 0, unique |-> 1]

\* extractFeatures(data, context) at time now (ms): the keys in insertion order and
\* their values in quarters.  context.sourceReliability is in quarters, 0 when absent.
extractFeatures(d, context, now) ==
  LET c == TextCounts(d)
      n == Max(1, c.len)
      text == [f \in FeatureNames |->
                 CASE f = "length" -> Min((c.len * 4) \div 100, 4)
                   [] f = "wordCount" -> Min((c.words * 4) \div 20, 4)
                   [] f = "vowelRatio" -> (c.vowels * 4) \div n
                   [] f = "digitRatio" -> (c.digits * 4) \div n
                   [] f = "specialCharRatio" -> (c.special * 4) \div n
                   [] f = "uppercaseRatio" -> (c.upper * 4) \div n
                   [] f = "whitespaceRatio" -> (c.blanks * 4) \div n
                   [] f = "avgWordLength" -> (c.letters * 4) \div (c.words * 10)
                   [] f = "uniqueWordRatio" -> (c.unique * 4) \div c.words
                   [] OTHER -> 0]
      depth == IF context.extractionDepth = 0 THEN 1 ELSE context.extractionDepth
      ctx == [f \in FeatureNames |->
                CASE f = "sourceReliability" ->
                       IF context.sourceReliability = 0 THEN 2 ELSE context.sourceReliability
                  [] f = "extractionDepth" -> Min((depth * 4) \div 10, 4)
                  [] f = "timeOfDay" -> ((now % 86400000) * 4) \div 86400000
                  [] OTHER -> 0]
      textKeys == <<"length", "wordCount", "vowelRatio", "digitRatio", "specialCharRatio",
                    "uppercaseRatio", "whitespaceRatio", "avgWordLength", "uniqueWordRatio">>
      ctxKeys == <<"sourceReliability", "extractionDepth", "timeOfDay">>
  IN IF d.type = "string"
     THEN [keys |-> textKeys \o ctxKeys,
           value |-> [f \in FeatureNames |-> text[f] + ctx[f]]]
     ELSE [keys |-> ctxKeys, value |-> ctx]

\* generateCacheKey: JSON.stringify(data) + '_' + JSON.stringify(context)
generateCacheKey(d, context) == <<d, context>>

\* let score = 0.5; for (feature, value) score += weight * value
Score(weights, features) ==
  (ScoreOne \div 2)
  + SumSeq([i \in 1..Len(features.keys) |->
              weights[features.keys[i]] * features.value[features.keys[i]]])

\* predictQuality(data, context): the value returned and the engine afterwards
predictQuality(ml, d, context, now) ==
  LET key == generateCacheKey(d, context)
      hit == {i \in 1..Len(ml.predictionCache) : ml.predictionCache[i].key = key}
      result == Max(0, Min(ScoreOne, Score(ml.featureWeights, extractFeatures(d, context, now))))
      kept == IF Len(ml.predictionCache) >= CacheSizeLimit
              THEN SubSeq(ml.predictionCache, (CacheSizeLimit \div 2) + 1, Len(ml.predictionCache))
              ELSE ml.predictionCache
  IN IF hit # {}
     THEN [value |-> ml.predictionCache[CHOOSE i \in hit : TRUE].value, ml |-> ml]
     ELSE [value |-> result,
           ml |-> [ml EXCEPT !.predictionCache = Append(kept, [key |-> key, value |-> result])]]

TargetInverted(feedback) == IF feedback THEN 0 ELSE ScoreOne

\* const target = feedback ? 1.0 : 0.0
Target(feedback) == IF feedback THEN ScoreOne ELSE 0

RECURSIVE AddKeys(_, _)
\* featureWeights.set(feature, ..) for each feature: a new key goes to the end
AddKeys(keys, new) ==
  IF new = << >> THEN keys
  ELSE AddKeys(IF \E i \in 1..Len(keys) : keys[i] = Head(new) THEN keys
               ELSE Append(keys, Head(new)), Tail(new))

trainFromFeedbackKeepCache(ml, d, context, feedback, learningRate, now) ==
  LET features == extractFeatures(d, context, now)
      called == predictQuality(ml, d, context, now)
      error == Target(feedback) - called.value
      present == {features.keys[i] : i \in 1..Len(features.keys)}
      samples == ml.trainingData + 1
  IN [ml EXCEPT
        !.featureWeights = [f \in FeatureNames |->
                              IF f \in present
                              THEN @[f] + (((error \div 4) * learningRate * features.value[f]) \div 64)
                              ELSE @[f]],
        !.featureKeys = AddKeys(@, features.keys),
        !.trainingData = samples,
        !.predictionCache = called.ml.predictionCache,
        !.modelVersion = IF samples % 100 = 0 THEN @ + 1 ELSE @]

\* trainFromFeedback(data, context, feedback, learningRate): weight += learningRate *
\* error * value, a product of sixteenths, 2^-25 and quarters; it is divided by 256 in
\* two steps to stay within 32 bits
trainFromFeedback(ml, d, context, feedback, learningRate, now) ==
  LET features == extractFeatures(d, context, now)
      error == Target(feedback) - predictQuality(ml, d, context, now).value
      present == {features.keys[i] : i \in 1..Len(features.keys)}
      samples == ml.trainingData + 1
  IN [ml EXCEPT
        !.featureWeights = [f \in FeatureNames |->
                              IF f \in present
                              THEN @[f] + (((error \div 4) * learningRate * features.value[f]) \div 64)
                              ELSE @[f]],
        !.featureKeys = AddKeys(@, features.keys),
        !.trainingData = samples,
        !.predictionCache = << >>,
        !.modelVersion = IF samples % 100 = 0 THEN @ + 1 ELSE @]

Abs(x) == IF x < 0 THEN 0 - x ELSE x

\* Array.from(featureWeights.entries()).sort((a, b) => |b[1]| - |a[1]|).slice(0, 5):
\* a stable sort of the entries, which are in the order the keys were first set
TopFeatures(ml) ==
  LET keys == ml.featureKeys
      w(i) == Abs(ml.featureWeights[keys[i]])
      rank(i) == Cardinality({j \in 1..Len(keys) : w(j) > w(i) \/ (w(j) = w(i) /\ j < i)})
  IN [r \in 1..Min(5, Len(keys)) |->
        LET i == CHOOSE i \in 1..Len(keys) : rank(i) = r - 1
        IN <<keys[i], ml.featureWeights[keys[i]]>>]

\* MachineLearningEngine.getStats(); present is FALSE when this.mlEngine is null
mlGetStats(ml) ==
  [present |-> ml.enabled, trainingSamples |-> ml.trainingData,
   featureCount |-> Len(ml.featureKeys), modelVersion |-> ml.modelVersion,
   cacheSize |-> Len(ml.predictionCache), topFeatures |-> TopFeatures(ml)]

(* ------------------------------ snapshots ------------------------------ *)
\* BaseFilterAgent.getSuccessRate()
getSuccessRate(a) ==
  IF a.metrics.totalProcessed = 0 THEN 0
  ELSE (a.metrics.successfulExtractions * 100) \div a.metrics.totalProcessed

\* BaseFilterAgent.getStats()
getStats(a) ==
  [name |-> a.name, priority |-> a.priority, strategy |-> a.strategy,
   totalProcessed |-> a.metrics.totalProcessed,
   successfulExtractions |-> a.metrics.successfulExtractions,
   failedExtractions |-> a.metrics.failedExtractions,
   successRate |-> getSuccessRate(a), isActive |-> a.isActive]

RECURSIVE ByName(_, _)
\* stats.filterAgents[agent.name] = agent.getStats(): one entry per name, at the
\* place of the name's first agent, holding the stats of its last agent
ByName(agents, done) ==
  IF agents = << >> THEN done
  ELSE LET st == getStats(Head(agents))
           at == {i \in 1..Len(done) : done[i].name = st.name}
       IN ByName(Tail(agents),
                 IF at = {} THEN Append(done, st)
                 ELSE [i \in 1..Len(done) |-> IF i \in at THEN st ELSE done[i]])

\* AdvancedStorageEngine.getStats(): COUNT(*) and AVG(confidence) of crawl_results
storageGetStats(table) ==
  [totalResults |-> Len(table),
   avgConfidence |-> IF table = << >> THEN 0
                     ELSE SumSeq([i \in 1..Len(table) |-> table[i].confidence]) \div Len(table)]

\* EnhancedUniversalCrawler.getComprehensiveStats(): the copy of globalStats with the
\* stats of every component (the deep-learning engine is absent)
getComprehensiveStats(gs, agents, ml, table, m) ==
  [pagesCrawled |-> gs.pagesCrawled, dataExtracted |-> gs.dataExtracted,
   errorsEncountered |-> gs.errorsEncountered,
   filterAgents |-> ByName(agents, << >>),
   mlEngine |-> mlGetStats(ml),
   storage |-> storageGetStats(table),
   monitoring |-> monitoringGetStats(m)]

\* getComprehensiveStats() as a call: what it returns, and the state it leaves
ReadStatsCounting(gs, agents, ml, table, m) ==
  [returned |-> getComprehensiveStats(gs, agents, ml, table, m),
   globalStats |-> [gs EXCEPT !.pagesCrawled = @ + 1],
   filterAgents |-> agents, mlEngine |-> ml, rows |-> table, monitor |-> m]

ReadStats(gs, agents, ml, table, m) ==
  [returned |-> getComprehensiveStats(gs, agents, ml, table, m),
   globalStats |-> gs, filterAgents |-> agents, mlEngine |-> ml, rows |-> table,
   monitor |-> m]

RECURSIVE FanOut(_, _, _, _)
\* for (const agent of this.filterAgents) agent.learnFromFeedback(data, liked, context):
\* the agents afterwards, the names of the agents called, and whether a call threw,
\* which ends the loop
FanOut(agents, from, d, liked) ==
  IF from > Len(agents) THEN [agents |-> agents, learned |-> << >>, threw |-> FALSE]
  ELSE LET out == learnFromFeedback(agents[from], d, liked)
           after == [agents EXCEPT ![from] = out.agent]
           rest == FanOut(after, from + 1, d, liked)
       IN IF out.threw
          THEN [agents |-> after, learned |-> <<agents[from].name>>, threw |-> TRUE]
          ELSE [rest EXCEPT !.learned = <<agents[from].name>> \o @]

\* addUserFeedback(data, liked, context): the agents and the scorer afterwards, the
\* learnFromFeedback calls made, the number of trainFromFeedback calls made, and
\* whether the exception of an agent left the method
addUserFeedback(agents, ml, d, liked, context, now) ==
  LET fan == FanOut(agents, 1, d, liked)
      trains == ~fan.threw /\ ml.enabled
  IN [filterAgents |-> fan.agents,
      mlEngine |-> IF trains
                   THEN trainFromFeedback(ml, d, context, liked, DefaultLearningRate, now)
                   ELSE ml,
      learned |-> fan.learned,
      trained |-> IF trains THEN 1 ELSE 0,
      threw |-> fan.threw]

(* --------------------------- the orchestrator -------------------------- *)
VARIABLES
  browser,        \* this.browser is not null
  session,        \* this.session is not null
  filterAgents,   \* this.filterAgents, the chain
  maxConcurrent,  \* this.maxConcurrent
  globalStats,    \* this.globalStats
  rows,           \* the crawl_results table of the storage engine, in insertion order
  bulk,           \* the frame of the bulkCrawl call
  tasks,          \* the crawlUrl frames of the bulkCrawl call, by submission index
  probe,          \* the outcome of the last direct applyFilter call
  mlEngine,       \* this.mlEngine: the MachineLearningEngine, or absent (null)
  monitor,        \* this.monitoringSystem
  handles,        \* which browser / session instance the crawler holds (0 = null)
  client          \* what the crawler's caller has received from its last calls

vars == <<browser, session, filterAgents, maxConcurrent, globalStats, rows, bulk, tasks, probe,
          mlEngine, monitor, handles, client>>

Methods == {"browser", "http"}

(* The web: the candidates the registered extraction targets yield on each *)
(* page, in extraction order, and whether fetching the page can fail.      *)
Page(url) ==
  IF url = "ok1" THEN <<HttpsUrl, HttpUrl>>
  ELSE IF url = "ok2" THEN <<HttpsUrl>>
  ELSE <<ProductObj, ProductNumObj>>

FetchOutcomes(url) == IF url = "bad" THEN {TRUE, FALSE} ELSE {TRUE}

\* the url lists handed to bulkCrawl: the prefixes of ok1, bad, ok2, ok1, ...
Worklist(n) == [i \in 1..n |-> <<"ok1", "bad", "ok2">>[((i - 1) % 3) + 1]]

\* the agents the callers construct
Templates ==
  { URLFilterAgent("safe_urls", {}, {"https"}),
    ContentQualityAgent("content_quality"),
    ProductFilterAgent("product_filter", 10, 500, {"laptop", "computer", "notebook"}) }

NoProbe == [called |-> FALSE, threw |-> FALSE, passed |-> FALSE, confidence |-> 0,
            malformed |-> FALSE]

IdleBulk ==
  [phase |-> "idle", urls |-> << >>, method |-> "browser", chunks |-> << >>, chunk |-> 0,
   results |-> << >>, chunksRun |-> 0, settled |-> << >>]

\* no browser and no session has been acquired yet
NoHandles == [browser |-> 0, session |-> 0]

\* the caller has made no call yet
NoClient ==
  [snapshots |-> << >>, feedbacks |-> 0, registered |-> << >>, learning |-> FALSE,
   learned |-> << >>, trained |-> 0, threw |-> FALSE]

\* new EnhancedUniversalCrawler({ maxConcurrent }): config.maxConcurrent || 5
Constructor(configured) == IF configured = 0 THEN DefaultMaxConcurrent ELSE configured

Init ==
  /\ browser = FALSE
  /\ session = FALSE
  /\ filterAgents = << >>
  /\ maxConcurrent \in {Constructor(c) : c \in 1..MaxConc}
  /\ globalStats = [pagesCrawled |-> 0, dataExtracted |-> 0, errorsEncountered |-> 0]
  /\ rows = << >>
  /\ bulk = IdleBulk
  /\ tasks = << >>
  /\ probe = NoProbe
  /\ mlEngine = MachineLearningEngine(FALSE)
  /\ monitor = AdvancedMonitoringSystem
  /\ handles = NoHandles
  /\ client = NoClient

AcquireAlways(held, instance, succeeds) == IF succeeds THEN instance + 1 ELSE instance

\* if (!this.browser) { this.browser = await puppeteer.launch(...) }: the instance held
\* afterwards, instances being numbered in the order they are created
Acquire(held, instance, succeeds) ==
  IF ~held /\ succeeds THEN instance + 1 ELSE instance

(* initialize(): each transport that is missing is acquired, and acquiring *)
(* it can fail (caught, the field stays null); one that exists is kept.    *)
Initialize ==
  /\ bulk.phase = "idle"
  /\ \E launched \in BOOLEAN, created \in BOOLEAN :
       /\ browser' = IF ~browser THEN launched ELSE browser
       /\ session' = IF ~session THEN created ELSE session
       /\ handles' = [browser |-> Acquire(browser, handles.browser, launched),
                      session |-> Acquire(session, handles.session, created)]
  /\ UNCHANGED <<filterAgents, maxConcurrent, globalStats, rows, bulk, tasks, probe, mlEngine,
                 monitor, client>>

RECURSIVE InsertSortedUnstable(_, _)
InsertSortedUnstable(sorted, a) ==
  IF sorted = << >> THEN <<a>>
  ELSE IF Head(sorted).priority > a.priority
       THEN <<Head(sorted)>> \o InsertSortedUnstable(Tail(sorted), a)
  ELSE <<a>> \o sorted

\* Array.prototype.sort((a, b) => b.priority - a.priority): stable, descending
RECURSIVE InsertSorted(_, _)
InsertSorted(sorted, a) ==
  IF sorted = << >> THEN <<a>>
  ELSE IF Head(sorted).priority >= a.priority THEN <<Head(sorted)>> \o InsertSorted(Tail(sorted), a)
  ELSE <<a>> \o sorted

RECURSIVE SortByPriority(_)
SortByPriority(s) ==
  IF s = << >> THEN << >>
  ELSE InsertSorted(SortByPriority(SubSeq(s, 1, Len(s) - 1)), s[Len(s)])

(* addFilterAgent(agent); the callers register each agent once, before     *)
(* crawling.                                                               *)
AddFilterAgent(agent) ==
  /\ bulk.phase = "idle"
  /\ Len(filterAgents) < MaxAgents
  /\ \A i \in 1..Len(filterAgents) : filterAgents[i].name # agent.name
  /\ filterAgents' = SortByPriority(Append(filterAgents, agent))
  /\ UNCHANGED <<browser, session, maxConcurrent, globalStats, rows, bulk, tasks, probe, mlEngine, monitor, handles, client>>

\* agent.isActive = active, the public field the chain loop reads
SetActive(i, active) ==
  /\ bulk.phase = "idle"
  /\ i \in 1..Len(filterAgents)
  /\ filterAgents[i].isActive # active
  /\ filterAgents' = [filterAgents EXCEPT ![i].isActive = active]
  /\ UNCHANGED <<browser, session, maxConcurrent, globalStats, rows, bulk, tasks, probe, mlEngine, monitor, handles, client>>

(* ------------------------------ crawlUrl ------------------------------- *)
(* A crawlUrl frame.  pc is the await the call is suspended at:            *)
(*   pending   not called yet (its chunk has not started)                  *)
(*   fetching  the stealth delay and crawlWithBrowser / crawlWithSession   *)
(*   filtering about to call applyFilter of agent ai on candidate ci       *)
(*   storing   about to call storeResult for candidate ci                  *)
(*   finishing the loops are over, the counters are not yet updated        *)
(*   failing   an exception is on its way to the catch block               *)
(*   saving    trackPerformance is awaiting saveReport                     *)
(*   tracking  trackPerformance is over, crawlUrl is about to return       *)
(*   settled   returned                                                    *)
(* calls, produced, threw and returned record what happened, for the       *)
(* properties; the code does not read them.                                *)
NewTask(url) ==
  [url |-> url, pc |-> "pending", transport |-> "none", ci |-> 0, ai |-> 0,
   passedFilters |-> TRUE, totalConfidence |-> 0, filterCount |-> 0,
   results |-> << >>, threw |-> "none", calls |-> << >>, produced |-> << >>,
   unstored |-> {}, returned |-> << >>, page |-> "none", trace |-> << >>,
   attempts |-> 0, invoked |-> 0]

\* if (extractionMethod === 'browser' && this.browser) crawlWithBrowser else crawlWithSession
SelectTransportNoFallback(method, hasBrowser) ==
  IF method = "browser" THEN "browser" ELSE "session"

SelectTransport(method, hasBrowser) ==
  IF method = "browser" /\ hasBrowser THEN "browser" ELSE "session"

\* if (!this.browser) throw ...; if (!this.session) throw ...
TransportReady(transport, hasBrowser, hasSession) ==
  IF transport = "browser" THEN hasBrowser ELSE hasSession

\* the first active agent at or after position i of the chain, 0 when there is none
FirstActiveFrom(agents, i) ==
  LET S == {j \in i..Len(agents) : agents[j].isActive}
  IN IF S = {} THEN 0 ELSE CHOOSE j \in S : \A h \in S : j <= h

NextAgentNoBreak(agents, ai, passed) == FirstActiveFrom(agents, ai + 1)

\* if (!passed) { passedFilters = false; break; }: the agent the loop calls next, 0 = loop over
NextAgent(agents, ai, passed) ==
  IF ~passed THEN 0 ELSE FirstActiveFrom(agents, ai + 1)

ChainVerdictCountOnly(passedFilters, filterCount) == filterCount > 0

ChainVerdictAnyChain(passedFilters, filterCount) == passedFilters

\* if (passedFilters && filterCount > 0)
ChainVerdict(passedFilters, filterCount) == passedFilters /\ filterCount > 0

\* the frame at the start of the chain loop for candidate ci, or past the last candidate;
\* a candidate for which the loop calls no agent goes straight to the test after the loop
RECURSIVE BeginCandidate(_, _, _)
BeginCandidate(t, agents, ci) ==
  IF ci > Len(Page(t.url)) THEN [t EXCEPT !.pc = "finishing"]
  ELSE IF FirstActiveFrom(agents, 1) # 0
  THEN [t EXCEPT !.pc = "filtering", !.ci = ci, !.ai = FirstActiveFrom(agents, 1),
                 !.passedFilters = TRUE, !.totalConfidence = 0, !.filterCount = 0]
  ELSE IF ChainVerdict(TRUE, 0)
  THEN [t EXCEPT !.pc = "storing", !.ci = ci, !.ai = 0,
                 !.passedFilters = TRUE, !.totalConfidence = 0, !.filterCount = 0]
  ELSE BeginCandidate(t, agents, ci + 1)

storeResultRethrow(table, result, insertOk) ==
  [rows |-> IF insertOk THEN Append(table, result) ELSE table, threw |-> ~insertOk]

storeResultReplace(table, result, insertOk) ==
  [rows |-> IF insertOk THEN <<result>> ELSE table, threw |-> FALSE]

\* storeResult / storeWithAnalysis: the INSERT, with any error caught and logged
storeResult(table, result, insertOk) ==
  [rows |-> IF insertOk THEN Append(table, result) ELSE table, threw |-> FALSE]

CatchBlockNoCount(stats, results) == [stats |-> stats, results |-> results]

CatchBlockCountsPage(stats, results) ==
  [stats |-> [stats EXCEPT !.errorsEncountered = @ + 1, !.pagesCrawled = @ + 1],
   results |-> results]

CatchBlockRollback(stats, results) ==
  [stats |-> [stats EXCEPT !.errorsEncountered = @ + 1], results |-> << >>]

\* catch (error) { this.globalStats.errorsEncountered++; ... }: results are left as they are
CatchBlock(stats, results) ==
  [stats |-> [stats EXCEPT !.errorsEncountered = @ + 1], results |-> results]

\* this.globalStats.pagesCrawled++; this.globalStats.dataExtracted += results.length
SuccessBlock(stats, results) ==
  [stats EXCEPT !.pagesCrawled = @ + 1, !.dataExtracted = @ + Len(results)]

\* this.retryPolicies = { maxRetries: 3, .. }
MaxRetries == 3

FetchFailedRetry(t) ==
  IF t.attempts <= MaxRetries THEN [t EXCEPT !.pc = "fetching"]
  ELSE [t EXCEPT !.pc = "failing", !.threw = "fetch"]

\* the exception of crawlWithBrowser / crawlWithSession reaches the catch block of
\* crawlUrl: nothing reads this.retryPolicies
FetchFailed(t) == [t EXCEPT !.pc = "failing", !.threw = "fetch"]

\* the fetch of task k ends: with the page, or with an exception
FetchReturn(k) ==
  /\ bulk.phase = "running"
  /\ k \in DOMAIN tasks
  /\ tasks[k].pc = "fetching"
  /\ \E responds \in FetchOutcomes(tasks[k].url) :
       LET ready == TransportReady(tasks[k].transport, browser, session)
           t == [tasks[k] EXCEPT !.attempts = IF ready THEN @ + 1 ELSE @]
           ok == ready /\ responds
       IN tasks' = [tasks EXCEPT ![k] =
                      IF ok THEN BeginCandidate(t, filterAgents, 1)
                      ELSE FetchFailed(t)]
  /\ UNCHANGED <<browser, session, filterAgents, maxConcurrent, globalStats, rows, bulk, probe, mlEngine, monitor, handles, client>>

\* await agent.applyFilter(data, context), and what the loop does with the answer
FilterStep(k) ==
  /\ bulk.phase = "running"
  /\ k \in DOMAIN tasks
  /\ tasks[k].pc = "filtering"
  /\ LET t == tasks[k]
         out == applyFilter(filterAgents[t.ai], Page(t.url)[t.ci])
         logged == [t EXCEPT !.calls = Append(@, [ci |-> t.ci, ai |-> t.ai, threw |-> out.threw,
                                                   passed |-> out.passed,
                                                   confidence |-> out.confidence])]
         next == NextAgent(filterAgents, t.ai, out.passed)
         after == [logged EXCEPT
                     !.passedFilters = t.passedFilters /\ out.passed,
                     !.totalConfidence = IF out.passed THEN @ + out.confidence ELSE @,
                     !.filterCount = IF out.passed THEN @ + 1 ELSE @]
     IN /\ filterAgents' = [filterAgents EXCEPT ![t.ai] = out.agent]
        /\ tasks' = [tasks EXCEPT ![k] =
             IF out.threw THEN [logged EXCEPT !.pc = "failing", !.threw = "filter"]
             ELSE IF next # 0 THEN [after EXCEPT !.ai = next]
             ELSE IF ChainVerdict(after.passedFilters, after.filterCount)
                  THEN [after EXCEPT !.pc = "storing"]
             ELSE BeginCandidate(after, filterAgents, t.ci + 1)]
  /\ UNCHANGED <<browser, session, maxConcurrent, globalStats, rows, bulk, probe, mlEngine, monitor, handles, client>>

AvgConfidenceOfChain(totalConfidence, filterCount, chainLength) ==
  totalConfidence \div chainLength

\* let avgConfidence = totalConfidence / filterCount; chainLength is not read
AvgConfidence(totalConfidence, filterCount, chainLength) ==
  totalConfidence \div filterCount

\* the CrawlResult is built, handed to storage and pushed to results
StoreStep(k) ==
  /\ bulk.phase = "running"
  /\ k \in DOMAIN tasks
  /\ tasks[k].pc = "storing"
  /\ \E insertOk \in BOOLEAN :
       LET t == tasks[k]
           result == [data |-> Page(t.url)[t.ci],
                      confidence |-> AvgConfidence(t.totalConfidence, t.filterCount,
                                                   Len(filterAgents)),
                      sourceUrl |-> t.url, task |-> k, ci |-> t.ci]
           st == storeResult(rows, result, insertOk)
           made == [t EXCEPT !.produced = Append(@, result),
                             !.unstored = IF insertOk THEN @ ELSE @ \cup {t.ci}]
       IN /\ rows' = st.rows
          /\ tasks' = [tasks EXCEPT ![k] =
               IF st.threw THEN [made EXCEPT !.pc = "failing", !.threw = "store"]
               ELSE BeginCandidate([made EXCEPT !.results = Append(@, result)],
                                   filterAgents, t.ci + 1)]
  /\ UNCHANGED <<browser, session, filterAgents, maxConcurrent, globalStats, bulk, probe, mlEngine, monitor, handles, client>>

\* await this.monitoringSystem.trackPerformance(this.getComprehensiveStats()), up to
\* its first await: it runs in the same turn as the end of the try statement
Track(m, gs) == trackPerformance(m, getComprehensiveStats(gs, filterAgents, mlEngine, rows, m))

\* where crawlUrl is suspended afterwards: on the report being written, or on nothing
AwaitTrack(before, after) == IF after.reports > before.reports THEN "saving" ELSE "tracking"

\* the end of the try block
Finish(k) ==
  /\ bulk.phase = "running"
  /\ k \in DOMAIN tasks
  /\ tasks[k].pc = "finishing"
  /\ LET gs == SuccessBlock(globalStats, tasks[k].results)
         m == Track(monitor, gs)
     IN /\ globalStats' = gs
        /\ monitor' = m
        /\ tasks' = [tasks EXCEPT ![k].pc = AwaitTrack(monitor, m)]
  /\ UNCHANGED <<browser, session, filterAgents, maxConcurrent, rows, bulk, probe, mlEngine,
                 handles, client>>

\* the catch block
Fail(k) ==
  /\ bulk.phase = "running"
  /\ k \in DOMAIN tasks
  /\ tasks[k].pc = "failing"
  /\ LET c == CatchBlock(globalStats, tasks[k].results)
         m == Track(monitor, c.stats)
     IN /\ globalStats' = c.stats
        /\ monitor' = m
        /\ tasks' = [tasks EXCEPT ![k].pc = AwaitTrack(monitor, m), ![k].results = c.results]
  /\ UNCHANGED <<browser, session, filterAgents, maxConcurrent, rows, bulk, probe, mlEngine,
                 handles, client>>

\* saveReport's mkdir and writeFile end, written or failed (caught and logged);
\* generateReports and trackPerformance return
ReportSaved(k) ==
  /\ bulk.phase = "running"
  /\ k \in DOMAIN tasks
  /\ tasks[k].pc = "saving"
  /\ \E ok \in BOOLEAN :
       monitor' = [monitor EXCEPT !.saving = @ - 1, !.written = @ + (IF ok THEN 1 ELSE 0)]
  /\ tasks' = [tasks EXCEPT ![k].pc = "tracking"]
  /\ UNCHANGED <<browser, session, filterAgents, maxConcurrent, globalStats, rows, bulk, probe,
                 mlEngine, handles, client>>

\* return results
Return(k) ==
  /\ bulk.phase = "running"
  /\ k \in DOMAIN tasks
  /\ tasks[k].pc = "tracking"
  /\ tasks' = [tasks EXCEPT ![k].pc = "settled", ![k].returned = tasks[k].results]
  /\ bulk' = [bulk EXCEPT !.settled = Append(@, k)]
  /\ UNCHANGED <<browser, session, filterAgents, maxConcurrent, globalStats, rows, probe, mlEngine, monitor, handles, client>>

(* ------------------------------ bulkCrawl ------------------------------ *)
ChunksFirstOnly(i, n, m) == <<[j \in 1..(Min(i + m, n) - i) |-> i + j]>>

\* for (let i = 0; i < urls.length; i += maxConcurrent) chunks.push(urls.slice(i, i + maxConcurrent))
\* each chunk as the submission indices (1-based) of its urls
RECURSIVE ChunksFrom(_, _, _)
ChunksFrom(i, n, m) ==
  IF i >= n THEN << >>
  ELSE <<[j \in 1..(Min(i + m, n) - i) |-> i + j]>> \o ChunksFrom(i + m, n, m)

Range(f) == {f[x] : x \in DOMAIN f}

\* chunk.map(async url => { await delay; return this.crawlUrl(url, method) })
StartChunk(ts, chunk, method, hasBrowser) ==
  [k \in DOMAIN ts |->
     IF k \in Range(chunk)
     THEN [ts[k] EXCEPT !.pc = "fetching", !.transport = SelectTransport(method, hasBrowser),
                        !.invoked = @ + 1]
     ELSE ts[k]]

\* await Promise.allSettled(chunkPromises)
AllSettledAny(ts, chunk) == \E k \in Range(chunk) : ts[k].pc = "settled"

AllSettled(ts, chunk) == \A k \in Range(chunk) : ts[k].pc = "settled"

RECURSIVE CollectCompletionOrder(_, _, _, _)
CollectCompletionOrder(results, ts, chunk, settledOrder) ==
  IF settledOrder = << >> THEN results
  ELSE CollectCompletionOrder(IF Head(settledOrder) \in Range(chunk)
                              THEN results \o ts[Head(settledOrder)].returned
                              ELSE results,
                              ts, chunk, Tail(settledOrder))

RECURSIVE CollectPrepend(_, _, _, _)
CollectPrepend(results, ts, chunk, settledOrder) ==
  IF chunk = << >> THEN results
  ELSE ts[Head(chunk)].returned \o CollectPrepend(results, ts, Tail(chunk), settledOrder)

\* for (const result of chunkResults) results.push(...result.value): in the order of the chunk
RECURSIVE Collect(_, _, _, _)
Collect(results, ts, chunk, settledOrder) ==
  IF chunk = << >> THEN results
  ELSE Collect(results \o ts[Head(chunk)].returned, ts, Tail(chunk), settledOrder)

BulkCrawl(n, method) ==
  /\ bulk.phase = "idle"
  /\ LET chunks == ChunksFrom(0, n, maxConcurrent)
     IN /\ bulk' = [IdleBulk EXCEPT !.phase = "running", !.urls = Worklist(n),
                                    !.method = method, !.chunks = chunks, !.chunk = 1]
        /\ tasks' = StartChunk([k \in 1..n |-> NewTask(Worklist(n)[k])],
                               chunks[1], method, browser)
  /\ UNCHANGED <<browser, session, filterAgents, maxConcurrent, globalStats, rows, probe, mlEngine, monitor, handles, client>>

\* the chunk's promises have all settled: collect, then the next chunk or return
CollectChunk ==
  /\ bulk.phase = "running"
  /\ AllSettled(tasks, bulk.chunks[bulk.chunk])
  /\ LET collected == Collect(bulk.results, tasks, bulk.chunks[bulk.chunk], bulk.settled)
     IN IF bulk.chunk < Len(bulk.chunks)
        THEN /\ bulk' = [bulk EXCEPT !.results = collected, !.chunksRun = @ + 1,
                                     !.chunk = @ + 1]
             /\ tasks' = StartChunk(tasks, bulk.chunks[bulk.chunk + 1], bulk.method, browser)
        ELSE /\ bulk' = [bulk EXCEPT !.results = collected, !.chunksRun = @ + 1,
                                     !.phase = "done"]
             /\ tasks' = tasks
  /\ UNCHANGED <<browser, session, filterAgents, maxConcurrent, globalStats, rows, probe, mlEngine, monitor, handles, client>>

Next ==
  \/ Initialize
  \/ \E a \in Templates : AddFilterAgent(a)
  \/ \E i \in 1..MaxAgents, b \in BOOLEAN : SetActive(i, b)
  \/ \E n \in 1..MaxUrls, m \in Methods : BulkCrawl(n, m)
  \/ \E k \in 1..MaxUrls : FetchReturn(k)
  \/ \E k \in 1..MaxUrls : FilterStep(k)
  \/ \E k \in 1..MaxUrls : StoreStep(k)
  \/ \E k \in 1..MaxUrls : Finish(k)
  \/ \E k \in 1..MaxUrls : Fail(k)
  \/ \E k \in 1..MaxUrls : Return(k)
  \/ CollectChunk

Spec == Init /\ [][Next]_vars

(* ------------------- crawls through the built-in agents ----------------- *)
(* A crawler that has both transports and a chain of two built-in agents,  *)
(* as the API route sets it up, running one bulk crawl.                    *)
BuiltinChains ==
  { <<URLFilterAgent("safe_urls", {}, {"https", "http"}), ContentQualityAgent("content_quality")>>,
    <<TextFilterAgent("english_text", {"\\b[a-zA-Z]{3,}\\b"}, 3, 200),
      URLFilterAgent("safe_urls", {}, {"https", "http"})>>,
    <<ContentQualityAgent("content_quality"), EmailFilterAgent("email_filter")>>,
    <<EmailFilterAgent("email_filter"),
      TextFilterAgent("english_text", {"\\b[a-zA-Z]{3,}\\b"}, 3, 200)>> }

InitBuiltin ==
  /\ browser = TRUE
  /\ session = TRUE
  /\ filterAgents \in BuiltinChains
  /\ maxConcurrent \in {Constructor(c) : c \in 2..MaxConc}
  /\ globalStats = [pagesCrawled |-> 0, dataExtracted |-> 0, errorsEncountered |-> 0]
  /\ rows = << >>
  /\ bulk = IdleBulk
  /\ tasks = << >>
  /\ probe = NoProbe
  /\ mlEngine = MachineLearningEngine(FALSE)
  /\ monitor = AdvancedMonitoringSystem
  /\ handles = [browser |-> 1, session |-> 1]
  /\ client = NoClient

NextCrawl ==
  \/ \E n \in 1..MaxUrls, m \in Methods : BulkCrawl(n, m)
  \/ \E k \in 1..MaxUrls : FetchReturn(k)
  \/ \E k \in 1..MaxUrls : FilterStep(k)
  \/ \E k \in 1..MaxUrls : StoreStep(k)
  \/ \E k \in 1..MaxUrls : Finish(k)
  \/ \E k \in 1..MaxUrls : Fail(k)
  \/ \E k \in 1..MaxUrls : Return(k)
  \/ CollectChunk

SpecBuiltin == InitBuiltin /\ [][NextCrawl]_vars

(* -------------------- applyFilter, called directly --------------------- *)
(* applyFilter is public: a caller can hand any value to any agent.  This  *)
(* specification constructs one agent of any class and calls it.           *)
AgentClasses ==
  Templates \cup
  { URLFilterAgent("any_urls", {"x.com"}, {"http", "https"}),
    TextFilterAgent("english_text", {"\\b[a-zA-Z]{3,}\\b"}, 3, 200),
    TextFilterAgent("text", {}, 3, 500),
    EmailFilterAgent("email_filter"),
    DateFilterAgent("recent_articles", 7) }

\* a candidate of the wrong type for the agent's class, or one it cannot parse
Malformed(kind, d) ==
  CASE kind = "url" -> ~URLParse(d).ok
    [] kind \in {"text", "quality", "email"} -> d.type # "string"
    [] kind \in {"product", "date"} -> d.type # "object" \/ d.isNull

InitAgents ==
  /\ browser = FALSE
  /\ session = FALSE
  /\ filterAgents \in {<<a>> : a \in AgentClasses}
  /\ maxConcurrent = DefaultMaxConcurrent
  /\ globalStats = [pagesCrawled |-> 0, dataExtracted |-> 0, errorsEncountered |-> 0]
  /\ rows = << >>
  /\ bulk = IdleBulk
  /\ tasks = << >>
  /\ probe = NoProbe
  /\ mlEngine = MachineLearningEngine(FALSE)
  /\ monitor = AdvancedMonitoringSystem
  /\ handles = NoHandles
  /\ client = NoClient

DirectApply(d) ==
  /\ bulk.phase = "idle"
  /\ Len(filterAgents) = 1
  /\ filterAgents[1].metrics.totalProcessed < MaxProbes
  /\ LET out == applyFilter(filterAgents[1], d)
     IN /\ filterAgents' = <<out.agent>>
        /\ probe' = [called |-> TRUE, threw |-> out.threw, passed |-> out.passed,
                     confidence |-> out.confidence,
                     malformed |-> Malformed(filterAgents[1].kind, d)]
  /\ UNCHANGED <<browser, session, maxConcurrent, globalStats, rows, bulk, tasks,
                 mlEngine, monitor, handles, client>>

NextAgents == \E d \in AnyData : DirectApply(d)

SpecAgents == InitAgents /\ [][NextAgents]_vars

(* ------------------- the monitoring system on its own ------------------ *)
\* new EnhancedUniversalCrawler() with the default configuration
InitDefault ==
  /\ browser = FALSE
  /\ session = FALSE
  /\ filterAgents = << >>
  /\ maxConcurrent = Constructor(DefaultMaxConcurrent)
  /\ globalStats = [pagesCrawled |-> 0, dataExtracted |-> 0, errorsEncountered |-> 0]
  /\ rows = << >>
  /\ bulk = IdleBulk
  /\ tasks = << >>
  /\ probe = NoProbe
  /\ mlEngine = MachineLearningEngine(FALSE)
  /\ monitor = AdvancedMonitoringSystem
  /\ handles = NoHandles
  /\ client = NoClient

MaxSnapshots == 11

\* a CrawlerStats snapshot, as far as trackPerformance reads it
Snapshot(rates, pages, errors) ==
  [pagesCrawled |-> pages, errorsEncountered |-> errors,
   filterAgents |-> [i \in 1..Len(rates) |-> [successRate |-> rates[i]]]]

\* mean agent success rate 0.2 with no error; 0.7 with one error in ten pages;
\* 1.0 with one error in two pages
PoorStats == Snapshot(<<10, 30>>, 10, 0)
EdgeStats == Snapshot(<<70>>, 10, 1)
ErringStats == Snapshot(<<100>>, 2, 1)
Snapshots == {PoorStats, EdgeStats, ErringStats}

\* monitor.trackPerformance(stats), called on a monitoring system of its own
TrackPerformance(stats) ==
  /\ monitor.fed < MaxSnapshots
  /\ monitor' = trackPerformance(monitor, stats)
  /\ UNCHANGED <<browser, session, filterAgents, maxConcurrent, globalStats, rows, bulk,
                 tasks, probe, mlEngine, handles, client>>

NextMonitor == \E stats \in Snapshots : TrackPerformance(stats)

SpecMonitor == InitDefault /\ [][NextMonitor]_vars

(* ----------------- a long run of one caller's snapshots ---------------- *)
MaxObservations == 1001

\* await monitor.trackPerformance(stats) by a caller that feeds one snapshot after
\* another: the next call starts when the previous one has resolved
TrackNext ==
  /\ monitor.fed < MaxObservations
  /\ monitor.saving = 0
  /\ monitor' = trackPerformance(monitor, PoorStats)
  /\ UNCHANGED <<browser, session, filterAgents, maxConcurrent, globalStats, rows, bulk,
                 tasks, probe, mlEngine, handles, client>>

\* saveReport settles: fs.mkdir and fs.writeFile have resolved, or one has rejected and
\* the catch block has logged it
SaveReport(ok) ==
  /\ monitor.saving > 0
  /\ monitor' = [monitor EXCEPT !.saving = @ - 1, !.written = @ + (IF ok THEN 1 ELSE 0)]
  /\ UNCHANGED <<browser, session, filterAgents, maxConcurrent, globalStats, rows, bulk,
                 tasks, probe, mlEngine, handles, client>>

NextReports ==
  \/ TrackNext
  \/ \E ok \in BOOLEAN : SaveReport(ok)

SpecReports == InitDefault /\ [][NextReports]_vars

(* ------------- a long run of snapshots that differ in value ------------ *)
MaxSamples == 1005

\* the snapshot a caller feeds after n others: the mean success rate cycles through
\* 0, 0.15, .., 0.90 and the error rate through 0, 0.1, 0.2, so that neighbouring
\* samples differ and both kinds of alert are raised
VariedStats(n) == Snapshot(<<(n % 7) * 15>>, 10, n % 3)

\* await monitor.trackPerformance(stats) with the next snapshot of the cycle
TrackVaried ==
  /\ monitor.fed < MaxSamples
  /\ monitor.saving = 0
  /\ monitor' = trackPerformance(monitor, VariedStats(monitor.fed))
  /\ UNCHANGED <<browser, session, filterAgents, maxConcurrent, globalStats, rows, bulk,
                 tasks, probe, mlEngine, handles, client>>

NextRings ==
  \/ TrackVaried
  \/ \E ok \in BOOLEAN : SaveReport(ok)

SpecRings == InitDefault /\ [][NextRings]_vars

(* --------------------------- the ML scorer ----------------------------- *)
MaxTrainings == 2

\* the contexts handed to the scorer: { extractionDepth: 5 } and
\* { sourceReliability: 1.0, extractionDepth: 10 }
MLContexts ==
  { [sourceReliability |-> 0, extractionDepth |-> 5],
    [sourceReliability |-> 4, extractionDepth |-> 10] }
MLData == {FiveWords, ProductObj}
\* learning rates 0.0625 and 1.0
LearningRates == {1, 16}
\* Date.now() during the calls: 06:00 UTC, a timeOfDay of 0.25
Now == 6 * 3600000

InitML ==
  /\ browser = FALSE
  /\ session = FALSE
  /\ filterAgents = << >>
  /\ maxConcurrent = Constructor(DefaultMaxConcurrent)
  /\ globalStats = [pagesCrawled |-> 0, dataExtracted |-> 0, errorsEncountered |-> 0]
  /\ rows = << >>
  /\ bulk = IdleBulk
  /\ tasks = << >>
  /\ probe = NoProbe
  /\ mlEngine = MachineLearningEngine(TRUE)
  /\ monitor = AdvancedMonitoringSystem
  /\ handles = NoHandles
  /\ client = NoClient

\* mlEngine.predictQuality(data, context)
PredictQuality(d, context) ==
  /\ LET p == predictQuality(mlEngine, d, context, Now)
     IN mlEngine' = [p.ml EXCEPT !.last = [NoCall EXCEPT !.op = "predict", !.data = d,
                                                        !.context = context,
                                                        !.value = p.value]]
  /\ UNCHANGED <<browser, session, filterAgents, maxConcurrent, globalStats, rows, bulk,
                 tasks, probe, monitor, handles, client>>

\* mlEngine.trainFromFeedback(data, context, feedback, learningRate)
TrainFromFeedback(d, context, feedback, learningRate) ==
  /\ mlEngine.trainingData < MaxTrainings
  /\ mlEngine' = [trainFromFeedback(mlEngine, d, context, feedback, learningRate, Now)
                    EXCEPT !.last = [op |-> "train", data |-> d, context |-> context,
                                     liked |-> feedback, rate |-> learningRate,
                                     before |-> predictQuality(mlEngine, d, context, Now).value,
                                     value |-> 0]]
  /\ UNCHANGED <<browser, session, filterAgents, maxConcurrent, globalStats, rows, bulk,
                 tasks, probe, monitor, handles, client>>

NextML ==
  \/ \E d \in MLData, c \in MLContexts : PredictQuality(d, c)
  \/ \E d \in MLData, c \in MLContexts, liked \in BOOLEAN, r \in LearningRates :
       TrainFromFeedback(d, c, liked, r)

SpecML == InitML /\ [][NextML]_vars

(* ------------------- feedback and statistics calls --------------------- *)
MaxFeedbacks == 2

\* one agent of each class, as the examples construct them
FeedbackAgents ==
  { URLFilterAgent("safe_urls", {}, {"https", "http"}),
    TextFilterAgent("english_text", {"\\b[a-zA-Z]{3,}\\b"}, 3, 200),
    ContentQualityAgent("content_quality"),
    EmailFilterAgent("email_filter"),
    ProductFilterAgent("product_filter", 10, 500, {"laptop", "computer", "notebook"}),
    DateFilterAgent("recent_articles", 7) }

\* what the caller rates: crawled strings and objects, and null
FeedbackData == {HttpsUrl, FoxText, EmailText, ProductNumObj, OldArticle, NullData}
\* the context handed over with the feedback: { extractionDepth: 5 }
FeedbackContext == [sourceReliability |-> 0, extractionDepth |-> 5]

\* new EnhancedUniversalCrawler({ enableLearning })
InitClient ==
  /\ browser = FALSE
  /\ session = FALSE
  /\ filterAgents = << >>
  /\ maxConcurrent = Constructor(DefaultMaxConcurrent)
  /\ globalStats = [pagesCrawled |-> 0, dataExtracted |-> 0, errorsEncountered |-> 0]
  /\ rows = << >>
  /\ bulk = IdleBulk
  /\ tasks = << >>
  /\ probe = NoProbe
  /\ mlEngine \in {MachineLearningEngine(enabled) : enabled \in BOOLEAN}
  /\ monitor = AdvancedMonitoringSystem
  /\ handles = NoHandles
  /\ client = NoClient

\* crawler.addUserFeedback(data, liked, context).  With the scorer enabled the
\* candidates are those whose features the scale holds exactly (no crawled string).
AddUserFeedback(d, liked) ==
  /\ client.feedbacks < MaxFeedbacks
  /\ mlEngine.enabled => d.type # "string"
  /\ LET out == addUserFeedback(filterAgents, mlEngine, d, liked, FeedbackContext, Now)
     IN /\ filterAgents' = out.filterAgents
        /\ mlEngine' = out.mlEngine
        /\ client' = [snapshots |-> << >>, feedbacks |-> client.feedbacks + 1,
                      registered |-> [i \in 1..Len(filterAgents) |-> filterAgents[i].name],
                      learning |-> mlEngine.enabled,
                      learned |-> out.learned, trained |-> out.trained, threw |-> out.threw]
  /\ UNCHANGED <<browser, session, maxConcurrent, globalStats, rows, bulk, tasks, probe,
                 monitor, handles>>

\* crawler.getComprehensiveStats(); the caller keeps the snapshots of the calls made
\* since the last crawl or feedback, the latest two of them, each with the chain as
\* it was registered and activated at the call
GetComprehensiveStats ==
  LET out == ReadStats(globalStats, filterAgents, mlEngine, rows, monitor)
      taken == [stats |-> out.returned, chain |-> filterAgents]
  IN /\ globalStats' = out.globalStats
     /\ filterAgents' = out.filterAgents
     /\ mlEngine' = out.mlEngine
     /\ rows' = out.rows
     /\ monitor' = out.monitor
     /\ client' = [client EXCEPT !.snapshots =
                     IF Len(@) < 2 THEN Append(@, taken) ELSE <<@[2], taken>>]
     /\ UNCHANGED <<browser, session, maxConcurrent, bulk, tasks, probe, handles>>

NextClient ==
  \/ \E a \in FeedbackAgents : AddFilterAgent(a)
  \/ \E i \in 1..MaxAgents, b \in BOOLEAN : SetActive(i, b)
  \/ \E d \in FeedbackData, liked \in BOOLEAN : AddUserFeedback(d, liked)
  \/ GetComprehensiveStats

SpecClient == InitClient /\ [][NextClient]_vars

(* ------------------ the crawl that makes the 100th sample --------------- *)
\* bulkCrawl has returned its results to the caller, who may call it again
BulkReturn ==
  /\ bulk.phase = "done"
  /\ monitor.fed < ReportEvery
  /\ bulk' = IdleBulk
  /\ tasks' = << >>
  /\ UNCHANGED <<browser, session, filterAgents, maxConcurrent, globalStats, rows, probe,
                 mlEngine, monitor, handles, client>>

NextLate ==
  \/ \E n \in 1..MaxUrls, m \in Methods : BulkCrawl(n, m)
  \/ \E k \in 1..MaxUrls : FetchReturn(k)
  \/ \E k \in 1..MaxUrls : Fail(k)
  \/ \E k \in 1..MaxUrls : ReportSaved(k)
  \/ \E k \in 1..MaxUrls : Return(k)
  \/ CollectChunk
  \/ BulkReturn

\* a new crawler, never initialized and with no agent, called again and again
SpecLate == InitDefault /\ [][NextLate]_vars

(* ------------- crawlers that fetch, and crawlers that cannot ------------ *)
\* the caller calls bulkCrawl again as long as no page has been crawled
RetryBulk == globalStats.pagesCrawled = 0 /\ BulkReturn

NextRuns ==
  \/ NextCrawl
  \/ \E k \in 1..MaxUrls : ReportSaved(k)
  \/ RetryBulk

\* a crawler with both transports and two built-in agents, or one never initialized
SpecRuns == (InitBuiltin \/ InitDefault) /\ [][NextRuns]_vars

(* ------------------ a bulk crawl that runs to its end ------------------- *)
MaxFetches == 2

\* a crawler with both transports and one built-in agent; maxConcurrent as configured,
\* 0 and undefined giving the default
InitLive ==
  /\ browser = TRUE
  /\ session = TRUE
  /\ filterAgents = <<URLFilterAgent("safe_urls", {}, {"https", "http"})>>
  /\ maxConcurrent \in {Constructor(c) : c \in 0..MaxFetches}
  /\ globalStats = [pagesCrawled |-> 0, dataExtracted |-> 0, errorsEncountered |-> 0]
  /\ rows = << >>
  /\ bulk = IdleBulk
  /\ tasks = << >>
  /\ probe = NoProbe
  /\ mlEngine = MachineLearningEngine(FALSE)
  /\ monitor = AdvancedMonitoringSystem
  /\ handles = [browser |-> 1, session |-> 1]
  /\ client = NoClient

\* the steps of a bulk crawl that is running
NextSettle ==
  \/ \E k \in 1..MaxFetches : FetchReturn(k)
  \/ \E k \in 1..MaxFetches : FilterStep(k)
  \/ \E k \in 1..MaxFetches : StoreStep(k)
  \/ \E k \in 1..MaxFetches : Finish(k)
  \/ \E k \in 1..MaxFetches : Fail(k)
  \/ \E k \in 1..MaxFetches : Return(k)
  \/ CollectChunk

NextLive ==
  \/ \E n \in 1..MaxFetches, m \in Methods : BulkCrawl(n, m)
  \/ NextSettle

\* every fetch resolves or fails by its timeout; the stealth timers fire, the local
\* database writes settle, and the event loop runs a continuation that is ready: a
\* running bulk crawl does not stand still for ever while one of its steps can be taken
SpecLive == InitLive /\ [][NextLive]_vars /\ WF_vars(NextSettle)

(* --------------- every operation of the orchestrator ------------------- *)
\* the agents the caller registers
OpsAgents ==
  { URLFilterAgent("safe_urls", {}, {"https", "http"}), ContentQualityAgent("content_quality") }

\* what the caller rates: a url the crawl has returned
OpsData == {HttpsUrl}

MaxLaunches == 2

\* close(): the browser is closed and forgotten, the storage engine is closed
Close ==
  /\ bulk.phase # "running"
  /\ browser
  /\ handles.browser < MaxLaunches
  /\ browser' = FALSE
  /\ UNCHANGED <<session, filterAgents, maxConcurrent, globalStats, rows, bulk, tasks, probe,
                 mlEngine, monitor, handles, client>>

NextOps ==
  \/ Initialize
  \/ \E a \in OpsAgents : AddFilterAgent(a)
  \/ \E n \in 1..MaxFetches, m \in Methods : BulkCrawl(n, m)
  \/ \E k \in 1..MaxFetches : FetchReturn(k)
  \/ \E k \in 1..MaxFetches : FilterStep(k)
  \/ \E k \in 1..MaxFetches : StoreStep(k)
  \/ \E k \in 1..MaxFetches : Finish(k)
  \/ \E k \in 1..MaxFetches : Fail(k)
  \/ \E k \in 1..MaxFetches : Return(k)
  \/ CollectChunk
  \/ \E d \in OpsData, liked \in BOOLEAN : bulk.phase = "done" /\ AddUserFeedback(d, liked)
  \/ bulk.phase = "done" /\ GetComprehensiveStats
  \/ Close

\* a new crawler with the default configuration and whatever its caller does with it
SpecOps == InitDefault /\ [][NextOps]_vars

(* ------------------- the browser fetch, step by step ------------------- *)
(* crawlWithBrowser as the awaits it is made of.  A frame's page is "none", *)
(* "open" or "closed"; trace lists the calls made on the page, in order,    *)
(* with ok = the call resolved.  pc of a frame inside the fetch:            *)
(*   fetching -> useragent -> stealth -> navigating -> reading -> closing   *)
\* the scripts of enhanceStealth, in the order of its array
StealthScripts ==
  <<"overrideWebdriver", "mockPlugins", "spoofTimezone", "mockWebGL", "overridePermissions",
    "randomizeMouseMovements", "spoofAudioContext", "mockBattery", "overrideLanguage",
    "mockHardwareConcurrency", "overrideChromeRuntime">>

\* the sets of scripts whose injection is rejected
ScriptFailures == {{}, {"overrideChromeRuntime"}}

Call(op, arg, ok) == [op |-> op, arg |-> arg, ok |-> ok]

\* randomMouseMovements, randomScrolling, delay: each catches its own failure
simulateHumanBehavior(trace, mouseOk, scrollOk) ==
  trace \o <<Call("mouse", "", mouseOk), Call("scroll", "", scrollOk), Call("pause", "", TRUE)>>

\* for (const script of stealthScripts) try { await page.evaluateOnNewDocument(script) }
\* catch { .. }; await this.simulateHumanBehavior(page)
enhanceStealth(trace, failed, mouseOk, scrollOk) ==
  simulateHumanBehavior(
    trace \o [i \in 1..Len(StealthScripts) |->
                Call("evaluateOnNewDocument", StealthScripts[i], StealthScripts[i] \notin failed)],
    mouseOk, scrollOk)

\* if (!this.browser) throw ..; const page = await this.browser.newPage()
NewPage(k) ==
  /\ bulk.phase = "running"
  /\ k \in DOMAIN tasks
  /\ tasks[k].pc = "fetching"
  /\ tasks[k].transport = "browser"
  /\ \E ok \in BOOLEAN :
       tasks' = [tasks EXCEPT ![k] =
                   IF browser /\ ok
                   THEN [@ EXCEPT !.pc = "useragent", !.page = "open",
                                  !.trace = <<Call("newPage", "", TRUE)>>]
                   ELSE [@ EXCEPT !.pc = "failing", !.threw = "fetch"]]
  /\ UNCHANGED <<browser, session, filterAgents, maxConcurrent, globalStats, rows, bulk, probe,
                 mlEngine, monitor, handles, client>>

\* await page.setUserAgent(..), before the try statement: a rejection leaves the function
SetUserAgent(k) ==
  /\ bulk.phase = "running"
  /\ k \in DOMAIN tasks
  /\ tasks[k].pc = "useragent"
  /\ \E ok \in BOOLEAN :
       tasks' = [tasks EXCEPT ![k] =
                   [@ EXCEPT !.trace = Append(@, Call("setUserAgent", "", ok)),
                             !.pc = IF ok THEN "stealth" ELSE "failing",
                             !.threw = IF ok THEN @ ELSE "fetch"]]
  /\ UNCHANGED <<browser, session, filterAgents, maxConcurrent, globalStats, rows, bulk, probe,
                 mlEngine, monitor, handles, client>>

\* await this.stealthEngine.enhanceStealth(page): it catches every failure
EnhanceStealth(k) ==
  /\ bulk.phase = "running"
  /\ k \in DOMAIN tasks
  /\ tasks[k].pc = "stealth"
  /\ \E failed \in ScriptFailures, mouseOk \in BOOLEAN, scrollOk \in BOOLEAN :
       tasks' = [tasks EXCEPT ![k] =
                   [@ EXCEPT !.trace = enhanceStealth(@, failed, mouseOk, scrollOk),
                             !.pc = "navigating"]]
  /\ UNCHANGED <<browser, session, filterAgents, maxConcurrent, globalStats, rows, bulk, probe,
                 mlEngine, monitor, handles, client>>

\* try { await page.goto(url, ..)
Goto(k) ==
  /\ bulk.phase = "running"
  /\ k \in DOMAIN tasks
  /\ tasks[k].pc = "navigating"
  /\ \E responds \in FetchOutcomes(tasks[k].url) :
       tasks' = [tasks EXCEPT ![k] =
                   [@ EXCEPT !.trace = Append(@, Call("goto", tasks[k].url, responds)),
                             !.attempts = @ + 1,
                             !.pc = IF responds THEN "reading" ELSE "closing",
                             !.threw = IF responds THEN @ ELSE "fetch"]]
  /\ UNCHANGED <<browser, session, filterAgents, maxConcurrent, globalStats, rows, bulk, probe,
                 mlEngine, monitor, handles, client>>

\* the wait for dynamic content; const content = await page.content()
Content(k) ==
  /\ bulk.phase = "running"
  /\ k \in DOMAIN tasks
  /\ tasks[k].pc = "reading"
  /\ \E ok \in BOOLEAN :
       tasks' = [tasks EXCEPT ![k] =
                   [@ EXCEPT !.trace = Append(@, Call("content", "", ok)),
                             !.pc = "closing",
                             !.threw = IF ok THEN @ ELSE "fetch"]]
  /\ UNCHANGED <<browser, session, filterAgents, maxConcurrent, globalStats, rows, bulk, probe,
                 mlEngine, monitor, handles, client>>

\* finally { await page.close() }, then the content is returned or the exception goes on
ClosePage(k) ==
  /\ bulk.phase = "running"
  /\ k \in DOMAIN tasks
  /\ tasks[k].pc = "closing"
  /\ LET closed == [tasks[k] EXCEPT !.page = "closed",
                                    !.trace = Append(@, Call("close", "", TRUE))]
     IN tasks' = [tasks EXCEPT ![k] =
                    IF closed.threw = "fetch" THEN [closed EXCEPT !.pc = "failing"]
                    ELSE BeginCandidate(closed, filterAgents, 1)]
  /\ UNCHANGED <<browser, session, filterAgents, maxConcurrent, globalStats, rows, bulk, probe,
                 mlEngine, monitor, handles, client>>

\* an initialized crawler with the chain of the API route
InitBrowserFetch ==
  /\ browser = TRUE
  /\ session = TRUE
  /\ filterAgents = <<URLFilterAgent("safe_urls", {}, {"https", "http"}),
                      ContentQualityAgent("content_quality")>>
  /\ maxConcurrent = Constructor(2)
  /\ globalStats = [pagesCrawled |-> 0, dataExtracted |-> 0, errorsEncountered |-> 0]
  /\ rows = << >>
  /\ bulk = IdleBulk
  /\ tasks = << >>
  /\ probe = NoProbe
  /\ mlEngine = MachineLearningEngine(FALSE)
  /\ monitor = AdvancedMonitoringSystem
  /\ handles = [browser |-> 1, session |-> 1]
  /\ client = NoClient

NextBrowserFetch ==
  \/ \E n \in 1..MaxFetches : BulkCrawl(n, "browser")
  \/ \E k \in 1..MaxFetches : NewPage(k)
  \/ \E k \in 1..MaxFetches : SetUserAgent(k)
  \/ \E k \in 1..MaxFetches : EnhanceStealth(k)
  \/ \E k \in 1..MaxFetches : Goto(k)
  \/ \E k \in 1..MaxFetches : Content(k)
  \/ \E k \in 1..MaxFetches : ClosePage(k)
  \/ \E k \in 1..MaxFetches : FilterStep(k)
  \/ \E k \in 1..MaxFetches : StoreStep(k)
  \/ \E k \in 1..MaxFetches : Finish(k)
  \/ \E k \in 1..MaxFetches : Fail(k)
  \/ \E k \in 1..MaxFetches : Return(k)
  \/ CollectChunk

SpecBrowserFetch == InitBrowserFetch /\ [][NextBrowserFetch]_vars

(* ---------- crawls through a chain with agents switched off ------------ *)
\* a URL agent that has learned from two likes of https://x.com
LikedUrlAgent ==
  LET a == URLFilterAgent("safe_urls", {}, {"https", "http"})
      once == URLFilterAgent_learnFromFeedback(a, HttpsUrl, TRUE).agent
  IN URLFilterAgent_learnFromFeedback(once, HttpsUrl, TRUE).agent

\* the chain of three agents, each switched on or off before the crawl
MeanChains ==
  { <<[LikedUrlAgent EXCEPT !.isActive = u],
      [ContentQualityAgent("content_quality") EXCEPT !.isActive = q],
      [EmailFilterAgent("email_filter") EXCEPT !.isActive = e]>> : u, q, e \in BOOLEAN }

InitMean ==
  /\ browser = TRUE
  /\ session = TRUE
  /\ filterAgents \in MeanChains
  /\ maxConcurrent = Constructor(2)
  /\ globalStats = [pagesCrawled |-> 0, dataExtracted |-> 0, errorsEncountered |-> 0]
  /\ rows = << >>
  /\ bulk = IdleBulk
  /\ tasks = << >>
  /\ probe = NoProbe
  /\ mlEngine = MachineLearningEngine(FALSE)
  /\ monitor = AdvancedMonitoringSystem
  /\ handles = [browser |-> 1, session |-> 1]
  /\ client = NoClient

SpecMean == InitMean /\ [][NextCrawl]_vars

(* ------------------ strategy updates between calls --------------------- *)
\* the success rates a caller may hand to updateStrategy, in hundredths: both sides
\* of every boundary of the four bands
SuccessRates == {0, 29, 30, 59, 60, 70, 80, 81, 100}

\* agent.updateStrategy(successRate), called on the one agent constructed
UpdateStrategy(successRate) ==
  /\ Len(filterAgents) = 1
  /\ filterAgents' = <<updateStrategy(filterAgents[1], successRate)>>
  /\ UNCHANGED <<browser, session, maxConcurrent, globalStats, rows, bulk, tasks, probe,
                 mlEngine, monitor, handles, client>>

NextStrategy ==
  \/ \E d \in AnyData : DirectApply(d)
  \/ \E successRate \in SuccessRates : UpdateStrategy(successRate)

\* one agent of any class, called directly, its strategy updated between the calls
SpecStrategy == InitAgents /\ [][NextStrategy]_vars

(* ------------------- feedback handed to a URL agent -------------------- *)
MaxLearns == 12

\* parseable URLs of two hosts, and values new URL() rejects
LearnData == {HttpsUrl, OtherUrl, FoxText, NullData}

InitLearn ==
  /\ browser = FALSE
  /\ session = FALSE
  /\ filterAgents \in {<<a>> : a \in {c \in AgentClasses : c.kind = "url"}}
  /\ maxConcurrent = DefaultMaxConcurrent
  /\ globalStats = [pagesCrawled |-> 0, dataExtracted |-> 0, errorsEncountered |-> 0]
  /\ rows = << >>
  /\ bulk = IdleBulk
  /\ tasks = << >>
  /\ probe = NoProbe
  /\ mlEngine = MachineLearningEngine(FALSE)
  /\ monitor = AdvancedMonitoringSystem
  /\ handles = NoHandles
  /\ client = NoClient

\* agent.learnFromFeedback(data, feedback, {}), called on the one agent constructed
DirectLearn(d, feedback) ==
  /\ Len(filterAgents) = 1
  /\ client.feedbacks < MaxLearns
  /\ LET out == learnFromFeedback(filterAgents[1], d, feedback)
     IN /\ filterAgents' = <<out.agent>>
        /\ client' = [client EXCEPT !.feedbacks = @ + 1, !.threw = out.threw]
  /\ UNCHANGED <<browser, session, maxConcurrent, globalStats, rows, bulk, tasks, probe,
                 mlEngine, monitor, handles>>

NextLearn == \E d \in LearnData, feedback \in BOOLEAN : DirectLearn(d, feedback)

SpecLearn == InitLearn /\ [][NextLearn]_vars

(* ------------- a URL agent between feedback and applyFilter ------------- *)
\* URLs of a host that receives feedback and of one that receives none
UrlData == {HttpsUrl, HttpUrl, OtherUrl}

NextUrlFeedback ==
  \/ \E feedback \in BOOLEAN : DirectLearn(HttpsUrl, feedback)
  \/ \E d \in UrlData : DirectApply(d)

SpecUrlFeedback == InitLearn /\ [][NextUrlFeedback]_vars

(* ---------- a text agent between feedback, strategy and filter ---------- *)
\* text agents without patterns, with the pattern of the basic example, and with
\* patterns that feedback can teach it a second time
TextAgents ==
  { TextFilterAgent("text", {}, 3, 500),
    TextFilterAgent("english_text", {"\\b[a-zA-Z]{3,}\\b"}, 3, 200),
    TextFilterAgent("web_text", {"\\b[a-zA-Z]{3,}\\b", "\\bcom\\b"}, 3, 200) }

TextData == {FoxText, HttpsUrl, EmailText}

InitText ==
  /\ browser = FALSE
  /\ session = FALSE
  /\ filterAgents \in {<<a>> : a \in TextAgents}
  /\ maxConcurrent = DefaultMaxConcurrent
  /\ globalStats = [pagesCrawled |-> 0, dataExtracted |-> 0, errorsEncountered |-> 0]
  /\ rows = << >>
  /\ bulk = IdleBulk
  /\ tasks = << >>
  /\ probe = NoProbe
  /\ mlEngine = MachineLearningEngine(FALSE)
  /\ monitor = AdvancedMonitoringSystem
  /\ handles = NoHandles
  /\ client = NoClient

NextText ==
  \/ \E d \in {FoxText, HttpsUrl} : client.feedbacks < MaxFeedbacks /\ DirectLearn(d, TRUE)
  \/ client.feedbacks < MaxFeedbacks /\ DirectLearn(EmailText, FALSE)
  \/ \E d \in TextData : DirectApply(d)
  \/ \E successRate \in {0, 50, 70, 100} : UpdateStrategy(successRate)

SpecText == InitText /\ [][NextText]_vars

(* ------------- an email agent between feedback and filter -------------- *)
\* addresses of two domains and a string without '@', handed to learnFromFeedback
EmailFeedbackData == {EmailText, UpperEmail, OtherEmail, FoxText}

\* the addresses of b.com, handed to applyFilter
EmailData == {EmailText, UpperEmail}

InitEmail ==
  /\ browser = FALSE
  /\ session = FALSE
  /\ filterAgents = <<EmailFilterAgent("email_filter")>>
  /\ maxConcurrent = DefaultMaxConcurrent
  /\ globalStats = [pagesCrawled |-> 0, dataExtracted |-> 0, errorsEncountered |-> 0]
  /\ rows = << >>
  /\ bulk = IdleBulk
  /\ tasks = << >>
  /\ probe = NoProbe
  /\ mlEngine = MachineLearningEngine(FALSE)
  /\ monitor = AdvancedMonitoringSystem
  /\ handles = NoHandles
  /\ client = NoClient

NextEmail ==
  \/ \E d \in EmailFeedbackData, feedback \in BOOLEAN : DirectLearn(d, feedback)
  \/ \E d \in EmailData : DirectApply(d)

SpecEmail == InitEmail /\ [][NextEmail]_vars

(* ============================ properties =============================== *)
Started(t) == t.pc # "pending"
Handled(t) == t.pc \in {"tracking", "settled"}
TaskIds == DOMAIN tasks
\* the chunk a submission index falls in, counted from 1
ChunkIndex(k) == ((k - 1) \div maxConcurrent) + 1
\* the position at which task k settled
SettlePos(k) == CHOOSE x \in 1..Len(bulk.settled) : bulk.settled[x] = k
ActiveAgents == {i \in 1..Len(filterAgents) : filterAgents[i].isActive}

\* every active agent was called on candidate ci of task t and answered passed = true
PassedByAll(t, ci) ==
  \A i \in ActiveAgents :
    \E x \in 1..Len(t.calls) :
      t.calls[x].ci = ci /\ t.calls[x].ai = i /\ t.calls[x].passed /\ ~t.calls[x].threw

\* C1: crawlUrl returns, and hands to storage, a CrawlResult only for a candidate that
\* every active agent of the chain passed; a candidate some active agent rejected is
\* in no returned list and in no stored row.
C1_OnlyFullyPassed ==
  /\ \A k \in TaskIds :
       \A r \in Range(tasks[k].results) \cup Range(tasks[k].returned) :
         PassedByAll(tasks[k], r.ci)
  /\ \A r \in Range(rows) \cup Range(bulk.results) : PassedByAll(tasks[r.task], r.ci)

\* a crawl has returned a result for one candidate after an active agent rejected another
C1_Witness ==
  \E k \in TaskIds :
    /\ tasks[k].pc = "settled"
    /\ tasks[k].returned # << >>
    /\ rows # << >>
    /\ \E x \in 1..Len(tasks[k].calls) : ~tasks[k].calls[x].passed /\ ~tasks[k].calls[x].threw

\* the calls of agent i that answered, over all crawls
CallsOf(i) ==
  UNION {{<<k, x>> : x \in {y \in 1..Len(tasks[k].calls) :
                              tasks[k].calls[y].ai = i /\ ~tasks[k].calls[y].threw}} :
         k \in TaskIds}

\* C2: for one candidate the agents are called in chain order, inactive agents are
\* skipped, and nothing is called after the first passed = false; each call adds 1 to
\* the called agent's totalProcessed and each rejection 1 to its failedExtractions, so
\* a rejection leaves the counters of every later agent as they were.
C2_ShortCircuit ==
  /\ \A k \in TaskIds :
       LET c == tasks[k].calls IN
       \A x \in 1..Len(c) :
         /\ c[x].ai \in ActiveAgents
         /\ IF x > 1 /\ c[x - 1].ci = c[x].ci
            THEN /\ c[x - 1].passed
                 /\ c[x - 1].ai < c[x].ai
                 /\ \A i \in ActiveAgents : ~(c[x - 1].ai < i /\ i < c[x].ai)
            ELSE \A i \in ActiveAgents : c[x].ai <= i
  /\ \A i \in 1..Len(filterAgents) :
       bulk.phase # "idle" =>
         /\ filterAgents[i].metrics.totalProcessed = Cardinality(CallsOf(i))
         /\ filterAgents[i].metrics.failedExtractions =
              Cardinality({c \in CallsOf(i) : ~tasks[c[1]].calls[c[2]].passed})

\* the first agent of a two-agent chain rejected a candidate and the crawl went on
\* without calling the second, active, agent on it
C2_Witness ==
  \E k \in TaskIds :
    /\ tasks[k].pc = "settled"
    /\ Len(filterAgents) = 2 /\ ActiveAgents = {1, 2}
    /\ filterAgents[1].kind = "url" /\ filterAgents[2].kind = "quality"
    /\ \E x \in 1..Len(tasks[k].calls) :
         /\ tasks[k].calls[x].ai = 1 /\ ~tasks[k].calls[x].passed
         /\ Page(tasks[k].url)[tasks[k].calls[x].ci] = HttpUrl
         /\ filterAgents[1].metrics.failedExtractions = 1

RECURSIVE ConcatProduced(_, _)
\* the results of tasks k..n whose fetch did not throw, in submission order
ConcatProduced(k, n) ==
  IF k > n THEN << >>
  ELSE (IF tasks[k].threw = "fetch" THEN << >> ELSE tasks[k].produced)
       \o ConcatProduced(k + 1, n)

\* C3: when bulkCrawl returns, every url has been crawled, the returned list holds
\* exactly the results of the urls whose fetch did not throw, and errorsEncountered
\* is the number of urls that ended in an exception.
C3_FailureIsolation ==
  bulk.phase = "done" =>
    /\ \A k \in TaskIds : tasks[k].pc = "settled"
    /\ Range(bulk.results) = Range(ConcatProduced(1, Len(bulk.urls)))
    /\ Len(bulk.results) = Len(ConcatProduced(1, Len(bulk.urls)))
    /\ \A k \in TaskIds : tasks[k].threw = "fetch" => tasks[k].returned = << >>
    /\ globalStats.errorsEncountered = Cardinality({k \in TaskIds : tasks[k].threw # "none"})

\* ok1, bad, ok2 with bad's fetch throwing: results of ok1 and ok2, one error
C3_Witness ==
  /\ bulk.phase = "done"
  /\ Len(bulk.urls) = 3
  /\ tasks[2].threw = "fetch"
  /\ {r.sourceUrl : r \in Range(bulk.results)} = {"ok1", "ok2"}
  /\ globalStats.errorsEncountered = 1

\* C4: bulkCrawl of n urls runs ceil(n / maxConcurrent) chunks one after another: no
\* crawlUrl of a later chunk has started while one of an earlier chunk is unsettled,
\* and at most maxConcurrent crawlUrl calls are in flight.
C4_SequentialChunks ==
  /\ Cardinality({k \in TaskIds : tasks[k].pc \notin {"pending", "settled"}}) <= maxConcurrent
  /\ \A j \in TaskIds, k \in TaskIds :
       ChunkIndex(j) < ChunkIndex(k) /\ Started(tasks[k]) => tasks[j].pc = "settled"
  /\ bulk.phase = "done" =>
       bulk.chunksRun = (Len(bulk.urls) + maxConcurrent - 1) \div maxConcurrent

\* the second chunk is running after a first chunk of two urls
C4_Witness ==
  /\ bulk.phase = "running"
  /\ maxConcurrent = 2
  /\ Len(bulk.urls) = 3
  /\ tasks[3].pc = "filtering"

\* C5 as claimed: within a chunk the results are in the order the crawls completed.
C5_CompletionOrder ==
  \A x \in 1..Len(bulk.results), y \in 1..Len(bulk.results) :
    x < y /\ ChunkIndex(bulk.results[x].task) = ChunkIndex(bulk.results[y].task)
      => SettlePos(bulk.results[x].task) <= SettlePos(bulk.results[y].task)

\* C5, amended: within a chunk the results are in the order the urls were submitted,
\* whatever the order the crawls completed in.
C5_SubmissionOrder ==
  \A x \in 1..Len(bulk.results), y \in 1..Len(bulk.results) :
    x < y /\ ChunkIndex(bulk.results[x].task) = ChunkIndex(bulk.results[y].task)
      => bulk.results[x].task <= bulk.results[y].task

\* two urls of one chunk both gave results and the later-submitted one completed first
C5_Witness ==
  \E x \in 1..Len(bulk.results), y \in 1..Len(bulk.results) :
    /\ x < y
    /\ ChunkIndex(bulk.results[x].task) = ChunkIndex(bulk.results[y].task)
    /\ bulk.results[x].task < bulk.results[y].task
    /\ SettlePos(bulk.results[x].task) > SettlePos(bulk.results[y].task)

\* C6: across chunks the returned list is in submission order: a result of an earlier
\* chunk precedes every result of a later chunk.
C6_ChunkOrder ==
  \A x \in 1..Len(bulk.results), y \in 1..Len(bulk.results) :
    x < y => ChunkIndex(bulk.results[x].task) <= ChunkIndex(bulk.results[y].task)

\* the returned list holds results of two different chunks
C6_Witness ==
  /\ bulk.phase = "done"
  /\ \E x \in 1..Len(bulk.results), y \in 1..Len(bulk.results) :
       ChunkIndex(bulk.results[x].task) < ChunkIndex(bulk.results[y].task)

\* C7: an exception in crawlUrl is caught: the call still returns, errorsEncountered
\* counts it once and pagesCrawled does not, and the results produced before it are
\* returned and stay stored.
C7_ExceptionContained ==
  /\ globalStats.errorsEncountered =
       Cardinality({k \in TaskIds : Handled(tasks[k]) /\ tasks[k].threw # "none"})
  /\ globalStats.pagesCrawled =
       Cardinality({k \in TaskIds : Handled(tasks[k]) /\ tasks[k].threw = "none"})
  /\ \A k \in TaskIds :
       /\ tasks[k].pc = "settled" => tasks[k].returned = tasks[k].produced
       /\ \A r \in Range(tasks[k].produced) :
            r.ci \notin tasks[k].unstored => r \in Range(rows)

\* a crawl whose second candidate made an agent throw returned the result of the first
C7_Witness ==
  \E k \in TaskIds :
    /\ tasks[k].pc = "settled"
    /\ tasks[k].threw = "filter"
    /\ Len(tasks[k].returned) = 1
    /\ tasks[k].returned[1] \in Range(rows)

Surviving == IF browser THEN "browser" ELSE "session"

\* C8 as claimed: with exactly one transport available, crawlUrl fetches through it
\* whichever method was requested, and the fetch does not fail for want of a transport.
C8_DegradesBothWays ==
  \A k \in TaskIds :
    Started(tasks[k]) /\ browser # session =>
      /\ tasks[k].transport = Surviving
      /\ tasks[k].url # "bad" => tasks[k].threw # "fetch"

\* C8, amended: the fallback goes one way.  Method 'browser' with no browser fetches
\* through the HTTP session; method 'http' always goes to the HTTP session, and with
\* no session it throws 'Session not initialized' even though the browser exists:
\* the crawl produces no result and is counted as one error.
C8_FallbackToSessionOnly ==
  \A k \in TaskIds :
    Started(tasks[k]) =>
      /\ bulk.method = "browser" /\ ~browser => tasks[k].transport = "session"
      /\ bulk.method = "browser" /\ browser => tasks[k].transport = "browser"
      /\ bulk.method = "http" => tasks[k].transport = "session"
      /\ ~session /\ tasks[k].transport = "session" /\ tasks[k].pc # "fetching" =>
           tasks[k].threw = "fetch" /\ tasks[k].produced = << >>
      /\ session /\ ~browser /\ tasks[k].url # "bad" => tasks[k].threw # "fetch"

\* only the browser exists, 'http' was requested, and the crawl of a reachable url
\* ended in the session's exception
C8_Witness ==
  /\ browser /\ ~session
  /\ bulk.method = "http"
  /\ \E k \in TaskIds :
       /\ tasks[k].pc = "settled"
       /\ tasks[k].url # "bad"
       /\ tasks[k].threw = "fetch"
       /\ globalStats.errorsEncountered >= 1

\* C9: a failed durable write loses nothing in memory: the result is in the list
\* crawlUrl returns, the crawl goes on with the next candidate, and the failed write
\* does not make the url count as an error.
C9_WriteFailureKept ==
  /\ \A k \in TaskIds :
       /\ tasks[k].threw # "store"
       /\ \A r \in Range(tasks[k].produced) :
            /\ r.ci \in tasks[k].unstored => r \notin Range(rows)
            /\ Handled(tasks[k]) => r \in Range(tasks[k].results)
            /\ tasks[k].pc = "settled" => r \in Range(tasks[k].returned)
            /\ tasks[k].pc \in {"filtering", "storing"} => tasks[k].ci > r.ci
  /\ globalStats.errorsEncountered =
       Cardinality({k \in TaskIds : Handled(tasks[k]) /\ tasks[k].threw \in {"fetch", "filter"}})

\* the write of a crawl's first result failed, the crawl went on to its second
\* candidate, returned the first result and was counted as a crawled page
C9_Witness ==
  \E k \in TaskIds :
    /\ tasks[k].pc = "settled"
    /\ tasks[k].threw = "none"
    /\ 1 \in tasks[k].unstored
    /\ \E x \in 1..Len(tasks[k].calls) : tasks[k].calls[x].ci = 2
    /\ \E r \in Range(tasks[k].returned) : r.ci = 1
    /\ globalStats.errorsEncountered = 0
    /\ globalStats.pagesCrawled >= 1

\* C10: applyFilter of every agent class returns normally on every input, with a
\* confidence in [0,1], and answers a malformed candidate with passed = false and
\* confidence 0.
C10_NeverThrowsUnitConfidence ==
  probe.called =>
    /\ ~probe.threw
    /\ 0 <= probe.confidence /\ probe.confidence <= 100
    /\ probe.malformed => ~probe.passed /\ probe.confidence = 0

\* C11: whatever the interleaving of the crawls of a chunk, every built-in agent has
\* totalProcessed = successfulExtractions + failedExtractions, and the three counters
\* are the number of applyFilter calls made on it, of those that answered passed = true
\* and of those that answered passed = false: each call counts once, none is lost.
C11_MetricsConserved ==
  \A i \in 1..Len(filterAgents) :
    LET m == filterAgents[i].metrics
        passed == {c \in CallsOf(i) : tasks[c[1]].calls[c[2]].passed}
    IN /\ m.totalProcessed = m.successfulExtractions + m.failedExtractions
       /\ m.totalProcessed = Cardinality(CallsOf(i))
       /\ m.successfulExtractions = Cardinality(passed)
       /\ m.failedExtractions = Cardinality(CallsOf(i) \ passed)

\* two crawls of one chunk are both between two applyFilter calls, and a text or
\* email agent has answered both of them
C11_Witness ==
  \E j \in TaskIds, k \in TaskIds, i \in 1..Len(filterAgents) :
    /\ j < k
    /\ tasks[j].pc = "filtering" /\ tasks[k].pc = "filtering"
    /\ filterAgents[i].kind \in {"text", "email"}
    /\ \E c \in CallsOf(i) : c[1] = j
    /\ \E c \in CallsOf(i) : c[1] = k
    /\ filterAgents[i].metrics.totalProcessed >= 2

\* C14: initialize is idempotent: a transport the crawler holds is never acquired
\* again (it keeps the instance it has), and an initialize call made while both are
\* held changes nothing at all.
C14_InitializeIdempotent ==
  [][ /\ browser => handles'.browser = handles.browser
      /\ session => handles'.session = handles.session
      /\ browser /\ session /\ Initialize => UNCHANGED vars ]_vars

\* both transports are held, each the first instance ever acquired
C14_Witness ==
  /\ browser /\ session
  /\ handles = [browser |-> 1, session |-> 1]

\* C15: the chain is always in non-increasing priority order; addFilterAgent puts the
\* new agent after every agent of greater or equal priority and before every agent of
\* lower priority, leaving the others in their order (so equal priorities keep their
\* insertion order); no step makes the chain shorter or drops an agent.
C15_StableChain ==
  /\ [](\A i \in 1..(Len(filterAgents) - 1) :
          filterAgents[i].priority >= filterAgents[i + 1].priority)
  /\ [][ LET old == filterAgents
             new == filterAgents'
         IN /\ Len(new) >= Len(old)
            /\ Len(new) = Len(old) => \A i \in 1..Len(old) : new[i].name = old[i].name
            /\ Len(new) > Len(old) =>
                 \E pos \in 1..Len(new) :
                   /\ Len(new) = Len(old) + 1
                   /\ \A j \in 1..Len(old) :
                        IF j < pos
                        THEN new[j].name = old[j].name /\ old[j].priority >= new[pos].priority
                        ELSE new[j + 1].name = old[j].name /\ old[j].priority < new[pos].priority
       ]_vars

\* two agents of equal priority are in the chain
C15_Witness ==
  /\ Len(filterAgents) = 2
  /\ filterAgents[1].priority = filterAgents[2].priority

\* the alerts of a level among the alerts held
AlertsOf(m, level) == Cardinality({i \in 1..Len(m.realTimeAlerts) : m.realTimeAlerts[i] = level})
\* the mean of the last ten samples of a series, times ten
LastTen(series) == SumSeq(SubSeq(series, Len(series) - 9, Len(series)))

\* C16: a snapshot appends a WARNING exactly when, with its sample appended, the
\* successRate series holds at least 10 samples whose last 10 have a mean below 0.7
\* (otherwise it appends none); no WARNING is held while the series is shorter than 10;
\* ten snapshots of mean agent success rate 0.2 in a row leave at least one WARNING.
C16_WarningIffLowMean ==
  /\ [][ LET s == monitor'.successRate
         IN /\ Len(s) = Len(monitor.successRate) + 1
            /\ IF Len(s) >= 10 /\ LastTen(s) < 700
               THEN AlertsOf(monitor', "WARNING") = AlertsOf(monitor, "WARNING") + 1
               ELSE AlertsOf(monitor', "WARNING") = AlertsOf(monitor, "WARNING") ]_vars
  /\ [](Len(monitor.successRate) < 10 => AlertsOf(monitor, "WARNING") = 0)
  /\ []( (/\ Len(monitor.successRate) >= 10
          /\ \A i \in 1..Len(monitor.successRate) : monitor.successRate[i] = 20)
         => AlertsOf(monitor, "WARNING") >= 1 )

\* the eleventh snapshot warned and the tenth did not: the window of ten slid from a
\* mean of exactly 0.7 to a mean below it
C16_Witness ==
  /\ Len(monitor.successRate) = 11
  /\ LastTen(SubSeq(monitor.successRate, 1, 10)) = 700
  /\ LastTen(monitor.successRate) < 700
  /\ AlertsOf(monitor, "WARNING") = 1

\* C17: a snapshot appends an ERROR only when, with its sample appended, the errorRate
\* series holds at least 10 samples whose last 10 have a mean above 0.1; while every
\* sample of the series is 0 no ERROR is held.
C17_ErrorOnlyIfHighMean ==
  /\ [][ LET e == monitor'.errorRate
         IN AlertsOf(monitor', "ERROR") # AlertsOf(monitor, "ERROR")
            => /\ AlertsOf(monitor', "ERROR") = AlertsOf(monitor, "ERROR") + 1
               /\ Len(e) >= 10
               /\ LastTen(e) > 100 ]_vars
  /\ []( (\A i \in 1..Len(monitor.errorRate) : monitor.errorRate[i] = 0)
         => AlertsOf(monitor, "ERROR") = 0 )

\* ten snapshots at an error rate of exactly 0.1 raised no ERROR, an eleventh above
\* it raised one
C17_Witness ==
  /\ Len(monitor.errorRate) = 11
  /\ LastTen(SubSeq(monitor.errorRate, 1, 10)) = 100
  /\ AlertsOf(monitor, "ERROR") = 1

\* C18: a snapshot generates a report exactly when the number of snapshots fed so far,
\* that one included, is a positive multiple of 100, whatever that number is.
C18_EveryHundredth ==
  [][ monitor'.fed # monitor.fed =>
        ( (monitor'.reports = monitor.reports + 1)
          <=> (monitor'.fed % 100 = 0 /\ monitor'.fed > 0) ) ]_vars

\* C19: report generation is fire-and-forget: no crawlUrl call is ever suspended on
\* the writing of the report its snapshot generated.
C19_NeverWaitsForReport ==
  \A k \in DOMAIN tasks : tasks[k].pc # "saving"

\* what predictQuality returns next for the input of the latest call
PredictionNow ==
  predictQuality(mlEngine, mlEngine.last.data, mlEngine.last.context, Now).value
\* the latest call was a training with liked = true and a positive learning rate
JustLiked ==
  mlEngine.last.op = "train" /\ mlEngine.last.liked /\ mlEngine.last.rate > 0

C12_StatsReadOnly ==
  /\ [][ client'.snapshots # client.snapshots /\ client'.snapshots # << >>
           => UNCHANGED <<browser, session, filterAgents, maxConcurrent, globalStats, rows,
                          bulk, tasks, probe, mlEngine, monitor, handles>> ]_vars
  /\ []( (Len(client.snapshots) = 2 /\ client.snapshots[1].chain = client.snapshots[2].chain)
         => client.snapshots[1].stats = client.snapshots[2].stats )

\* two snapshots in a row of a crawler with a trained scorer and an agent that has
\* learned from feedback
C12_Witness ==
  /\ Len(client.snapshots) = 2
  /\ client.snapshots[1].chain = client.snapshots[2].chain
  /\ client.snapshots[2].stats.mlEngine.trainingSamples > 0
  /\ client.snapshots[2].stats.filterAgents # << >>
  /\ client.feedbacks > 0

\* C13: each addUserFeedback call invokes learnFromFeedback once on every registered
\* agent, active or not, and trainFromFeedback once when learning is enabled, and
\* changes no global counter, agent metric, stored row or monitoring state.
C13_PureFanOut ==
  /\ [](client.feedbacks > 0 =>
          /\ client.learned = client.registered
          /\ client.trained = IF client.learning THEN 1 ELSE 0)
  /\ [][ client'.feedbacks # client.feedbacks =>
           /\ UNCHANGED <<globalStats, rows, monitor>>
           /\ Len(filterAgents') = Len(filterAgents)
           /\ \A i \in 1..Len(filterAgents) : filterAgents'[i].metrics = filterAgents[i].metrics
       ]_vars

\* the strategy the four bands name for a success rate in hundredths
StrategyOfBand(successRate) ==
  IF successRate < 30 THEN "aggressive"
  ELSE IF successRate >= 30 /\ successRate < 60 THEN "balanced"
  ELSE IF successRate > 80 THEN "stealth"
  ELSE "adaptive"

\* C23: updateStrategy(successRate) sets the strategy to a function of successRate
\* alone, whatever the strategy was before: AGGRESSIVE below 0.3, BALANCED in
\* [0.3, 0.6), STEALTH above 0.8, ADAPTIVE in [0.6, 0.8]; it never sets CUSTOM and it
\* changes no metric nor any other field of the agent.
C23_StrategyPureFunction ==
  \A i \in 1..Len(filterAgents) : \A successRate \in SuccessRates :
    LET after == updateStrategy(filterAgents[i], successRate)
    IN /\ after.strategy = StrategyOfBand(successRate)
       /\ after.strategy # "custom"
       /\ after = [filterAgents[i] EXCEPT !.strategy = StrategyOfBand(successRate)]

\* an agent that has been called, and whose strategy an update has set to ADAPTIVE
C23_Witness ==
  /\ Len(filterAgents) = 1
  /\ filterAgents[1].strategy = "adaptive"
  /\ filterAgents[1].metrics.totalProcessed > 0

Strategies == {"aggressive", "balanced", "stealth", "adaptive"}

\* the text agent of this state, and the same agent after one more feedback
TextAgentVariants ==
  IF Len(filterAgents) = 1 /\ filterAgents[1].kind = "text"
  THEN {filterAgents[1]} \cup
       {TextFilterAgent_learnFromFeedback(filterAgents[1], d, feedback).agent :
          d \in AnyData, feedback \in BOOLEAN}
  ELSE {}

\* the pass decision of agent a on candidate d, had its strategy been s
PassedUnder(a, s, d) == TextFilterAgent_applyFilter([a EXCEPT !.strategy = s], d).passed

\* C24 as stated: for the same candidate and learned state, TextFilterAgent.applyFilter
\* returns the same passed under every strategy.
C24_PassIndependentOfStrategy ==
  \A a \in TextAgentVariants : \A d \in AnyData : \A s1, s2 \in Strategies :
    PassedUnder(a, s1, d) = PassedUnder(a, s2, d)

\* C24, amended: the pass decision is taken on the scaled confidence, so it is the same
\* under BALANCED and ADAPTIVE, a candidate passed under STEALTH is passed under
\* BALANCED, and a candidate passed under BALANCED is passed under AGGRESSIVE.
C24_PassMonotoneInStrategy ==
  \A a \in TextAgentVariants : \A d \in AnyData :
    /\ PassedUnder(a, "adaptive", d) = PassedUnder(a, "balanced", d)
    /\ PassedUnder(a, "stealth", d) => PassedUnder(a, "balanced", d)
    /\ PassedUnder(a, "balanced", d) => PassedUnder(a, "aggressive", d)

\* a text agent under AGGRESSIVE has just passed a candidate that it rejects under
\* BALANCED
C24_Witness ==
  /\ Len(filterAgents) = 1
  /\ filterAgents[1].kind = "text"
  /\ filterAgents[1].strategy = "aggressive"
  /\ probe.called /\ probe.passed
  /\ \E d \in AnyData :
       /\ PassedUnder(filterAgents[1], "aggressive", d)
       /\ ~PassedUnder(filterAgents[1], "balanced", d)

\* C30: the confidenceScores history of every agent stays below a fixed maximum
\* however many applyFilter calls are made.  A maximum M is exceeded by M + 1 calls
\* that reach the push; the formula states it for the largest M the call bound leaves
\* room to exceed.
C30_HistoryBounded ==
  \A i \in 1..Len(filterAgents) :
    Len(filterAgents[i].metrics.confidenceScores) < MaxProbes

\* C29: every learned per-domain score of a URL agent lies in [-1, 1]; feedback on a
\* parseable URL moves the score of that URL's host by +0.1 or -0.1, clamped to
\* [-1, 1], and leaves every other host's score as it was; feedback on a value that
\* does not parse as a URL changes no score; no feedback call throws.
C29_DomainScoresClamped ==
  /\ [](\A i \in 1..Len(filterAgents) : \A h \in DOMAIN filterAgents[i].domainScores :
          /\ filterAgents[i].domainScores[h] >= 0 - 100
          /\ filterAgents[i].domainScores[h] <= 100)
  /\ [][ \A d \in LearnData, feedback \in BOOLEAN :
           DirectLearn(d, feedback) =>
             LET url == URLParse(d)
                 before == filterAgents[1]
                 after == filterAgents'[1]
                 moved == DomainScore(before, url.hostname) + (IF feedback THEN 10 ELSE 0 - 10)
             IN /\ ~client'.threw
                /\ ~url.ok => after.domainScores = before.domainScores
                /\ url.ok =>
                     /\ DomainScore(after, url.hostname) = Max(0 - 100, Min(100, moved))
                     /\ DOMAIN after.domainScores =
                          (DOMAIN before.domainScores) \cup {url.hostname}
                     /\ \A h \in (DOMAIN before.domainScores) \ {url.hostname} :
                          after.domainScores[h] = before.domainScores[h]
       ]_vars

\* one host's score stands at the upper limit after more likes than the limit takes,
\* while another host's score is negative
C29_Witness ==
  /\ Len(filterAgents) = 1
  /\ client.feedbacks >= 12
  /\ ~client.threw
  /\ \E h1, h2 \in DOMAIN filterAgents[1].domainScores :
       /\ filterAgents[1].domainScores[h1] = 100
       /\ filterAgents[1].domainScores[h2] < 0

\* after holds the last Len(after) - added entries of before, in their order, followed
\* by added new entries
ShiftedBy(before, after, added) ==
  /\ Len(after) >= added
  /\ Len(after) - added <= Len(before)
  /\ \A x \in 1..(Len(after) - added) :
       after[x] = before[Len(before) - (Len(after) - added) + x]

\* C27: each metric series holds at most 1000 samples and the alert list at most 100
\* alerts.  A snapshot appends one sample to each series and the alerts it raises to
\* the list; an append to a full buffer evicts exactly the oldest entry and keeps the
\* others in arrival order.
C27_RingBuffers ==
  /\ [](/\ Len(monitor.successRate) <= 1000
        /\ Len(monitor.errorRate) <= 1000
        /\ Len(monitor.realTimeAlerts) <= 100)
  /\ [][ monitor'.fed = monitor.fed + 1 =>
           /\ Len(monitor'.successRate) = Min(1000, Len(monitor.successRate) + 1)
           /\ ShiftedBy(monitor.successRate, monitor'.successRate, 1)
           /\ Len(monitor'.errorRate) = Min(1000, Len(monitor.errorRate) + 1)
           /\ ShiftedBy(monitor.errorRate, monitor'.errorRate, 1)
           /\ \E raised \in 0..2 :
                /\ Len(monitor'.realTimeAlerts) =
                     Min(100, Len(monitor.realTimeAlerts) + raised)
                /\ ShiftedBy(monitor.realTimeAlerts, monitor'.realTimeAlerts, raised)
       ]_vars

\* both series and the alert list are full and have evicted entries; the oldest
\* entries kept differ from their successors
C27_Witness ==
  /\ monitor.fed > 1000
  /\ Len(monitor.successRate) = 1000
  /\ Len(monitor.errorRate) = 1000
  /\ Len(monitor.realTimeAlerts) = 100
  /\ monitor.successRate[1] # monitor.successRate[2]
  /\ monitor.errorRate[1] # monitor.errorRate[2]
  /\ \E x, y \in 1..100 : monitor.realTimeAlerts[x] # monitor.realTimeAlerts[y]

\* the prediction the present weights give for candidate d in context c
FreshPrediction(d, c) ==
  Max(0, Min(ScoreOne, Score(mlEngine.featureWeights, extractFeatures(d, c, Now))))

\* C26: the prediction cache is empty right after every trainFromFeedback call; every
\* value the cache holds, and every value predictQuality returns, is the one the
\* weights of the most recent training step give (features held equal).
C26_CacheNeverStale ==
  /\ mlEngine.last.op = "train" => mlEngine.predictionCache = << >>
  /\ \A i \in 1..Len(mlEngine.predictionCache) :
       mlEngine.predictionCache[i].value =
         FreshPrediction(mlEngine.predictionCache[i].key[1], mlEngine.predictionCache[i].key[2])
  /\ mlEngine.last.op = "predict" =>
       mlEngine.last.value = FreshPrediction(mlEngine.last.data, mlEngine.last.context)

\* after two trainings, a prediction that the trained weights have moved off the base
\* score has just been returned, and the cache holds it beside another one
C26_Witness ==
  /\ mlEngine.trainingData = 2
  /\ mlEngine.last.op = "predict"
  /\ mlEngine.last.value # ScoreOne \div 2
  /\ Len(mlEngine.predictionCache) >= 2

\* the store calls of task k whose INSERT succeeded
StoredBy(k) == Len(tasks[k].produced) - Cardinality(tasks[k].unstored)

\* C22: crawlUrl makes one store call for each CrawlResult it returns, never two for
\* one candidate and none for a candidate an agent rejected; the stored rows only
\* grow, by appending: no row is changed or removed, and the number of rows is the
\* number of store calls that succeeded.
C22_AppendOnlyOncePerSurvivor ==
  /\ [](\A k \in TaskIds :
          /\ tasks[k].results = tasks[k].produced
          /\ tasks[k].pc = "settled" => tasks[k].returned = tasks[k].produced
          /\ \A x, y \in 1..Len(tasks[k].produced) :
               x # y => tasks[k].produced[x].ci # tasks[k].produced[y].ci
          /\ \A r \in Range(tasks[k].produced) : PassedByAll(tasks[k], r.ci))
  /\ [](Len(rows) = SumSeq([k \in 1..Len(tasks) |-> StoredBy(k)]))
  /\ [][ Len(rows') >= Len(rows) /\ SubSeq(rows', 1, Len(rows)) = rows ]_vars

\* a crawl has returned two results, one stored and one whose write failed, while
\* another crawl's candidate was rejected and not stored, and two rows are stored
C22_Witness ==
  /\ Len(rows) >= 2
  /\ \E k \in TaskIds :
       /\ tasks[k].pc = "settled"
       /\ Len(tasks[k].returned) = 2
       /\ Cardinality(tasks[k].unstored) = 1
  /\ \E k \in TaskIds : \E x \in 1..Len(tasks[k].calls) : ~tasks[k].calls[x].passed

\* the answers the agents gave for candidate ci of task t, in call order
AnswersFor(t, ci) == SelectSeq(t.calls, LAMBDA c : c.ci = ci)

\* C25: the confidence of a CrawlResult, with the ML scorer and the semantic analyzer
\* disabled, is the arithmetic mean of the confidences returned for its candidate by
\* the active agents of the chain, each called once; an inactive agent is not called
\* and adds nothing to the sum or to the count.
C25_MeanOfActiveAgents ==
  ~mlEngine.enabled =>
    \A k \in TaskIds : \A r \in Range(tasks[k].produced) :
      LET answers == AnswersFor(tasks[k], r.ci)
      IN /\ {answers[x].ai : x \in 1..Len(answers)} = ActiveAgents
         /\ Len(answers) = Cardinality(ActiveAgents)
         /\ \A x \in 1..Len(answers) : answers[x].passed /\ ~answers[x].threw
         /\ r.confidence =
              SumSeq([x \in 1..Len(answers) |-> answers[x].confidence]) \div Len(answers)

\* a result whose confidence is the mean of two different confidences, produced by
\* a chain of three agents of which one is inactive
C25_Witness ==
  \E k \in TaskIds : \E r \in Range(tasks[k].produced) :
    LET answers == AnswersFor(tasks[k], r.ci)
    IN /\ Len(answers) = 2
       /\ answers[1].confidence # answers[2].confidence
       /\ r.confidence # answers[1].confidence
       /\ r.confidence # answers[2].confidence
       /\ Len(filterAgents) = 3
       /\ \E i \in 1..3 : ~filterAgents[i].isActive

\* crawlWithBrowser of frame t has returned or thrown
FetchOver(t) ==
  t.pc \in {"failing", "filtering", "storing", "finishing", "tracking", "saving", "settled"}

\* C21: a page opened by a browser fetch is closed before the fetch returns, whether
\* the fetch succeeds or a step after the opening fails (user-agent setup, stealth
\* setup, navigation, content read); so no page is open when no crawl is in flight.
C21_PagesClosed ==
  /\ \A k \in TaskIds : FetchOver(tasks[k]) => tasks[k].page # "open"
  /\ bulk.phase = "done" => \A k \in TaskIds : tasks[k].page # "open"

\* the positions of the calls of kind ops in a trace
CallsAt(trace, ops) == {x \in 1..Len(trace) : trace[x].op \in ops}

\* C28: in a browser fetch every environment-spoofing script is injected before the
\* page navigates to the url, and the human-interaction simulation (mouse path, then
\* scroll, then pause) runs after the navigation.
C28_SimulationAfterNavigation ==
  \A k \in TaskIds :
    LET trace == tasks[k].trace
        goto == CallsAt(trace, {"goto"})
    IN /\ \A x \in CallsAt(trace, {"evaluateOnNewDocument"}) : \A g \in goto : x < g
       /\ \A x \in CallsAt(trace, {"mouse", "scroll", "pause"}) : \A g \in goto : g < x
       /\ \A m \in CallsAt(trace, {"mouse"}) : \A c \in CallsAt(trace, {"scroll"}) : m < c
       /\ \A c \in CallsAt(trace, {"scroll"}) : \A p \in CallsAt(trace, {"pause"}) : c < p

\* C31: the retry policy is inert: a crawlUrl call makes at most one fetch attempt for
\* its url, and a fetch that failed is not attempted again by crawlUrl or bulkCrawl:
\* the call goes to its catch block and settles with that one attempt.
C31_NoRetry ==
  \A k \in TaskIds :
    /\ tasks[k].attempts <= 1
    /\ tasks[k].invoked <= 1
    /\ tasks[k].threw = "fetch" => tasks[k].pc \in {"failing", "tracking", "saving", "settled"}

\* a bulk crawl is over in which the fetch of a url was attempted once, failed, and
\* the crawl of that url settled as an error
C31_Witness ==
  /\ bulk.phase = "done"
  /\ \E k \in TaskIds :
       /\ tasks[k].threw = "fetch"
       /\ tasks[k].attempts = 1
       /\ tasks[k].pc = "settled"
       /\ globalStats.errorsEncountered >= 1

\* C32: no operation of the orchestrator (initialize, addFilterAgent, crawlUrl,
\* bulkCrawl, addUserFeedback, getComprehensiveStats, close) changes the strategy of an
\* agent: an agent on which the caller never calls updateStrategy is BALANCED in every
\* reachable state, whatever its success rate.
C32_StrategyNeverAutomatic ==
  \A i \in 1..Len(filterAgents) : filterAgents[i].strategy = "balanced"

\* after a crawl and a feedback, one agent of the chain has a success rate below 0.6
\* and another one above 0.8, and statistics have been read
C32_Witness ==
  /\ bulk.phase = "done"
  /\ client.feedbacks > 0
  /\ client.snapshots # << >>
  /\ \E i, j \in 1..Len(filterAgents) :
       /\ filterAgents[i].metrics.totalProcessed > 0
       /\ getSuccessRate(filterAgents[i]) < 60
       /\ filterAgents[j].metrics.totalProcessed > 0
       /\ getSuccessRate(filterAgents[j]) > 80

PastTry(ts) == {k \in DOMAIN ts : ts[k].pc \in {"saving", "tracking", "settled"}}

\* C34: every crawlUrl call adds exactly 1 to exactly one of pagesCrawled and
\* errorsEncountered, when its try statement ends: the sum of the two counters is the
\* number of calls that have got that far (all the calls, once they have returned), a
\* step that completes a call raises one counter by 1 and leaves the other, and no
\* step lowers either counter.
C34_OneCounterPerCall ==
  /\ [](/\ globalStats.pagesCrawled + globalStats.errorsEncountered
             = Cardinality(PastTry(tasks))
        /\ bulk.phase = "done" =>
             globalStats.pagesCrawled + globalStats.errorsEncountered = Len(bulk.urls))
  /\ [][/\ globalStats'.pagesCrawled >= globalStats.pagesCrawled
         /\ globalStats'.errorsEncountered >= globalStats.errorsEncountered
         /\ \A k \in DOMAIN tasks :
              (k \in DOMAIN tasks' /\ k \in PastTry(tasks') \ PastTry(tasks)) =>
                \/ /\ globalStats'.pagesCrawled = globalStats.pagesCrawled + 1
                   /\ globalStats'.errorsEncountered = globalStats.errorsEncountered
                   /\ tasks[k].threw = "none"
                \/ /\ globalStats'.pagesCrawled = globalStats.pagesCrawled
                   /\ globalStats'.errorsEncountered = globalStats.errorsEncountered + 1
                   /\ tasks[k].threw # "none"]_vars

\* a bulk crawl of several urls is over: some calls ended in the try block and some in
\* the catch block, and the two counters add up to the number of calls
C34_Witness ==
  /\ bulk.phase = "done"
  /\ Len(bulk.urls) >= 2
  /\ \A k \in TaskIds : tasks[k].pc = "settled"
  /\ globalStats.pagesCrawled >= 1
  /\ globalStats.errorsEncountered >= 1
  /\ globalStats.pagesCrawled + globalStats.errorsEncountered = Len(bulk.urls)

\* the number of CrawlResults the first k crawlUrl calls have returned
RECURSIVE ReturnedCount(_)
ReturnedCount(k) ==
  IF k = 0 THEN 0 ELSE Len(tasks[k].returned) + ReturnedCount(k - 1)

\* C35 as claimed: whenever no crawlUrl call is in flight, dataExtracted is the number
\* of CrawlResults the completed calls have returned, the results of calls that ended
\* in an exception included.
C35_DataExtractedCountsReturned ==
  (\A k \in TaskIds : tasks[k].pc \in {"pending", "settled"}) =>
    globalStats.dataExtracted = ReturnedCount(Len(tasks))

\* the URLs an agent lets through to the learned score: parseable, scheme allowed,
\* host allowed
Scored(a, d) ==
  /\ URLParse(d).ok
  /\ URLParse(d).scheme \in a.allowedSchemes
  /\ a.allowedDomains # {} =>
       \E allowed \in a.allowedDomains : HostIncludes(URLParse(d).hostname, allowed)

\* the stored double is >= 0
ScoreAtLeastZero(a, domain) ==
  DomainScore(a, domain) > 0 \/ (DomainScore(a, domain) = 0 /\ ScoreError(a, domain) >= 0)

\* C36 as claimed: a URL agent with the default threshold passes a parseable URL with
\* an allowed scheme and host if and only if the learned score of its host is >= 0.
C36_PassesIffScoreAtLeastZero ==
  \A d \in UrlData :
    LET a == filterAgents[1] IN
    (a.adaptationThreshold = DefaultThreshold /\ Scored(a, d)) =>
      (URLFilterAgent_applyFilter(a, d).passed
         <=> ScoreAtLeastZero(a, URLParse(d).hostname))

\* C36, amended: such a URL passes if and only if the learned score of its host,
\* rounded to the nearest hundredth, is >= 0: a score that alternating feedback has
\* left a rounding error below 0 still passes.  One dislike of a host without a
\* score leaves -0.1, with which every URL of the host is rejected, and a like after
\* it leaves exactly 0.
C36_PassesIffScoreRoundsToZeroOrMore ==
  /\ \A d \in UrlData :
       LET a == filterAgents[1] IN
       (a.adaptationThreshold = DefaultThreshold /\ Scored(a, d)) =>
         /\ URLFilterAgent_applyFilter(a, d).passed
              <=> DomainScore(a, URLParse(d).hostname) >= 0
         /\ URLParse(d).hostname \notin DOMAIN a.domainScores =>
              LET disliked == URLFilterAgent_learnFromFeedback(a, d, FALSE).agent
                  liked == URLFilterAgent_learnFromFeedback(disliked, d, TRUE).agent
              IN /\ \A u \in UrlData :
                      URLParse(u).hostname = URLParse(d).hostname =>
                        ~URLFilterAgent_applyFilter(disliked, u).passed
                 /\ DomainScore(liked, URLParse(d).hostname) = 0
                 /\ ScoreError(liked, URLParse(d).hostname) = 0
                 /\ URLFilterAgent_applyFilter(liked, d).passed
  /\ (probe.called /\ probe.passed) => probe.confidence >= DefaultThreshold

\* after dislikes and as many likes the score of x.com is a rounding error below 0,
\* a URL of the host has been rejected meanwhile, and its URLs pass again
C36_Witness ==
  /\ DomainScore(filterAgents[1], "x.com") = 0
  /\ ScoreError(filterAgents[1], "x.com") < 0
  /\ filterAgents[1].adaptationThreshold = DefaultThreshold
  /\ filterAgents[1].metrics.failedExtractions >= 1
  /\ probe.called /\ probe.passed
  /\ URLFilterAgent_applyFilter(filterAgents[1], HttpsUrl).passed

\* a string within the length bounds of the agent that no blacklisted pattern matches
Eligible(a, d) ==
  /\ d.type = "string"
  /\ StrFacts(d).len >= a.minLength /\ StrFacts(d).len <= a.maxLength
  /\ ~\E b \in a.blacklistPatterns : RegExpTest(b, d)

\* C37: a TextFilterAgent in BALANCED with the threshold 0.7 passes an eligible string
\* if and only if at least 4 patterns of its configured list followed by its learned
\* patterns match it; an agent without any pattern gives 0.5 and passes no string under
\* BALANCED, ADAPTIVE or STEALTH: a call of it that passed returned the 0.75 of
\* AGGRESSIVE.
C37_FourMatchesToPass ==
  /\ \A d \in TextData :
       LET a == filterAgents[1] IN
       (a.adaptationThreshold = DefaultThreshold /\ Eligible(a, d)) =>
         /\ (a.strategy = "balanced" /\ a.patterns \cup a.learnedPatterns # {}) =>
              (TextFilterAgent_applyFilter(a, d).passed <=> PatternMatches(a, d) >= 4)
         /\ (a.strategy \in {"balanced", "adaptive", "stealth"}
               /\ a.patterns \cup a.learnedPatterns = {}) =>
              ~TextFilterAgent_applyFilter(a, d).passed
  /\ (probe.called /\ probe.passed /\ filterAgents[1].patterns = {}
        /\ filterAgents[1].learnedPatterns = {}) =>
       probe.confidence = 75

\* a balanced agent has passed a string that exactly 4 of its patterns match, one of
\* them configured and learned; a string with 3 matches it rejects
C37_Witness ==
  LET a == filterAgents[1] IN
  /\ a.strategy = "balanced"
  /\ probe.called /\ probe.passed
  /\ a.patterns \cap a.learnedPatterns # {}
  /\ Eligible(a, HttpsUrl) /\ PatternMatches(a, HttpsUrl) = 4
  /\ TextFilterAgent_applyFilter(a, HttpsUrl).passed
  /\ Eligible(a, EmailText) /\ PatternMatches(a, EmailText) = 3
  /\ ~TextFilterAgent_applyFilter(a, EmailText).passed

\* C38: the trusted and the blocked domains of an EmailFilterAgent are disjoint after
\* any sequence of feedback, and the last feedback on a domain (the lower-cased text
\* after '@') wins: after a dislike the domain is blocked and not trusted, and every
\* address of it is rejected with confidence 0; after a later like it is trusted and
\* not blocked, and its addresses pass again.
C38_LastFeedbackWins ==
  /\ [](LET a == filterAgents[1] IN
        /\ a.trustedDomains \cap a.blockedDomains = {}
        /\ \A d \in EmailData :
             LET out == EmailFilterAgent_applyFilter(a, d) IN
             /\ StrFacts(d).emailDomain \in a.blockedDomains =>
                  ~out.passed /\ out.confidence = 0
             /\ StrFacts(d).emailDomain \in a.trustedDomains => out.passed)
  /\ [][\A d \in EmailFeedbackData, feedback \in BOOLEAN :
          (DirectLearn(d, feedback) /\ StrFacts(d).emailDomain # "") =>
            LET domain == StrFacts(d).emailDomain
                after == filterAgents'[1]
            IN /\ feedback => domain \in after.trustedDomains \ after.blockedDomains
               /\ ~feedback => domain \in after.blockedDomains \ after.trustedDomains
               /\ \A e \in EmailData :
                    StrFacts(e).emailDomain = domain =>
                      (EmailFilterAgent_applyFilter(after, e).passed <=> feedback)]_vars

\* an address of b.com was rejected, so the domain had been disliked; it is trusted
\* now and its addresses pass, the last call included, while y.org is blocked
C38_Witness ==
  LET a == filterAgents[1] IN
  /\ a.metrics.failedExtractions >= 1
  /\ "b.com" \in a.trustedDomains
  /\ "y.org" \in a.blockedDomains
  /\ probe.called /\ probe.passed /\ probe.confidence = 100
  /\ \A d \in EmailData : EmailFilterAgent_applyFilter(a, d).passed

\* C39: the errorRate sample of a snapshot is errorsEncountered / pagesCrawled when
\* pagesCrawled > 0 and 0 when pagesCrawled = 0, and pagesCrawled counts the crawls that
\* ended without an exception only: as long as every crawl has failed, every errorRate
\* sample is 0 and no ERROR alert has been raised, however many crawls have failed.
C39_ErrorRateOverCrawledPages ==
  /\ monitor.errorRate # << >> =>
       monitor.errorRate[Len(monitor.errorRate)] =
         IF globalStats.pagesCrawled > 0
         THEN (globalStats.errorsEncountered * 100) \div globalStats.pagesCrawled
         ELSE 0
  /\ globalStats.pagesCrawled = 0 =>
       /\ \A x \in 1..Len(monitor.errorRate) : monitor.errorRate[x] = 0
       /\ "ERROR" \notin Range(monitor.realTimeAlerts)
  /\ globalStats.pagesCrawled =
       Cardinality({k \in PastTry(tasks) : tasks[k].threw = "none"})

\* more failed crawls than the alert looks back on, and not one crawled page: every
\* sample is 0 and there is no ERROR alert
C39_Witness ==
  /\ globalStats.pagesCrawled = 0
  /\ globalStats.errorsEncountered > RecentWindow
  /\ Len(monitor.errorRate) > RecentWindow
  /\ \A x \in 1..Len(monitor.errorRate) : monitor.errorRate[x] = 0
  /\ "ERROR" \notin Range(monitor.realTimeAlerts)

\* C40: bulkCrawl on a finite list of urls, with maxConcurrent >= 1, eventually
\* returns when every fetch resolves or fails; crawlUrl is never invoked twice for an
\* element of the list, and when bulkCrawl returns it has been invoked exactly once
\* for each of them.
C40_BulkCrawlReturns ==
  /\ (bulk.phase = "running") ~> (bulk.phase = "done")
  /\ [](/\ maxConcurrent >= 1
        /\ \A k \in TaskIds : tasks[k].invoked <= 1
        /\ bulk.phase = "done" =>
             /\ DOMAIN tasks = 1..Len(bulk.urls)
             /\ \A k \in TaskIds :
                  /\ tasks[k].invoked = 1
                  /\ tasks[k].url = bulk.urls[k]
                  /\ tasks[k].pc = "settled")

\* bulkCrawl has returned from a list of urls crawled one at a time, the fetch of one
\* of them having failed: every url was handed to crawlUrl once
C40_Witness ==
  /\ bulk.phase = "done"
  /\ maxConcurrent = 1
  /\ Len(bulk.urls) = MaxFetches
  /\ bulk.chunksRun = MaxFetches
  /\ \E k \in TaskIds : tasks[k].threw = "fetch"
  /\ \A k \in TaskIds : tasks[k].invoked = 1

====
